---- MODULE Spec2Model ----
(***************************************************************************)
(* Model of Lucy's JSON codec (core/Lucy/Util/Json.c): the encoder         *)
(* S_to_json / Json_to_json, the tokenizer S_do_parse_json with the string *)
(* and number lexers, and the grammar driven by LucyParseJson.             *)
(*                                                                         *)
(* Text is a sequence of bytes (0..255), indexed from 1; a C pointer into  *)
(* a buffer is the index of the byte it points at, and the buffer limit is *)
(* Len(buffer) + 1.  C loops are run by While and the recursion of         *)
(* S_to_json by an explicit call stack, so that evaluation depth stays     *)
(* small for long buffers and deep trees.  The C library is the "C" locale *)
(* of glibc.                                                               *)
(***************************************************************************)
EXTENDS Integers, Sequences, FiniteSets, TLC

VARIABLES
    pc,         \* where the caller is: "build", "encoded", "twin", "decoded",
                \* "reencoded", "parsing", "parsed", "converted", "returned", or
                \* inside Json_slurp_json / Json_spew_json
    tolerant,   \* static bool tolerant (Json.c:77)
    err,        \* the global error slot (Err_set_error / Err_get_error)
    dump,       \* the value tree the caller holds
    twin,       \* the same tree, its hashes filled in another order
    json,       \* the String* the caller holds (input text or Json_to_json result)
    json_twin,  \* Json_to_json of twin
    parsed,     \* what the caller's last Json_from_json returned
    json2,      \* Json_to_json of the parsed tree
    written,    \* how many pieces of text the caller has put into json
    scan,       \* activation record of a running S_do_parse_json
    ctype_high, \* what isalnum answers for a byte above 127 in this build
    calls,      \* the calls made so far on the Folder and its streams
    retval,     \* what the caller's last call of a helper or of a file
                \* operation returned
    threads     \* the threads of the process that call the codec side by
                \* side: where each one stands, the calls it has made and
                \* what it has read in the error slot (<<>>: one caller only)

vars ==
    <<pc, tolerant, err, dump, twin, json, json_twin, parsed, json2, written, scan,
      ctype_high, calls,
      retval, threads>>

----------------------------------------------------------------------------
(* Bytes and text literals.                                                *)

\* Printable ASCII, bytes 32..95 and 97..126.
AsciiLow == " !\"#$%&'()*+,-./0123456789:;<=>?@ABCDEFGHIJKLMNOPQRSTUVWXYZ[\\]^_"
AsciiHigh == "abcdefghijklmnopqrstuvwxyz{|}~"

\* The byte value of every character of printable ASCII.
OrdTable ==
    [c \in {SubSeq(AsciiLow, i, i) : i \in 1..64}
            \cup {SubSeq(AsciiHigh, i, i) : i \in 1..30} |->
        IF \E i \in 1..64 : SubSeq(AsciiLow, i, i) = c
        THEN 31 + (CHOOSE i \in 1..64 : SubSeq(AsciiLow, i, i) = c)
        ELSE 96 + (CHOOSE i \in 1..30 : SubSeq(AsciiHigh, i, i) = c)]

\* The byte value of a one-character string of printable ASCII.
Ord(c) == OrdTable[c]

\* The bytes of a string literal of printable ASCII.
B(s) == [i \in 1..Len(s) |-> Ord(SubSeq(s, i, i))]

\* for (...) and while (...) loops: apply Step until Done.  Iter runs at most
\* 2^k iterations and Grow doubles that until the loop is over, which keeps
\* the evaluation depth logarithmic in the number of iterations.
RECURSIVE Iter(_, _, _, _)
Iter(Done(_), Step(_), st, k) ==
    IF Done(st) THEN st
    ELSE IF k = 0 THEN Step(st)
    ELSE Iter(Done, Step, Iter(Done, Step, st, k - 1), k - 1)

RECURSIVE Grow(_, _, _, _)
Grow(Done(_), Step(_), st, k) ==
    IF Done(st) THEN st
    ELSE Grow(Done, Step, Iter(Done, Step, st, k), k + 1)

While(Done(_), Step(_), st) == Grow(Done, Step, st, 0)

IsDigit(b) == b >= 48 /\ b <= 57
IsUpper(b) == b >= 65 /\ b <= 90
IsLower(b) == b >= 97 /\ b <= 122
IsHexDigit(b) == IsDigit(b) \/ (b >= 65 /\ b <= 70) \/ (b >= 97 /\ b <= 102)
HexVal(b) == IF IsDigit(b) THEN b - 48 ELSE IF b >= 97 THEN b - 87 ELSE b - 55
\* isspace() of <ctype.h>: space, \t \n \v \f \r.
IsSpace(b) == b = 32 \/ (b >= 9 /\ b <= 13)

----------------------------------------------------------------------------
(* The value model: the Clownfish objects a dump is made of.  NULL stands  *)
(* for JSON null.  A Hash is kept as the sequence of its entries in the    *)
(* order Hash_Keys would list them, which no caller controls.              *)

Null == [t |-> "null"]
CFISH_TRUE == [t |-> "bool", b |-> TRUE]
CFISH_FALSE == [t |-> "bool", b |-> FALSE]
Str_new(s) == [t |-> "str", s |-> s]
Int_new(i) == [t |-> "int", i |-> i]
Float_new(f) == [t |-> "float", f |-> f]
Vec_new(a) == [t |-> "arr", a |-> a]
Hash_new(h) == [t |-> "obj", h |-> h]

\* Obj_is_a(obj, HASH) || Obj_is_a(obj, VECTOR); false for NULL.
IsContainer(v) == v.t = "arr" \/ v.t = "obj"

\* A double: m * 10^e with the sign kept apart (so that -0 exists), m without
\* trailing zeros; or an infinity; or a NaN.
Dbl(neg, m, e) == [k |-> "num", neg |-> neg, m |-> m, e |-> e]
DblInf(neg) == [k |-> "inf", neg |-> neg, m |-> 0, e |-> 0]
DblNan(neg) == [k |-> "nan", neg |-> neg, m |-> 0, e |-> 0]

\* The same double with the trailing zeros of m moved into e.
DblNorm(neg, m, e) ==
    LET strip(st) == [m |-> st.m \div 10, e |-> st.e + 1]
        done(st) == st.m % 10 # 0
        norm(r) == Dbl(neg, r.m, r.e)
    IN IF m = 0 THEN Dbl(neg, 0, 0)
       ELSE norm(While(done, strip, [m |-> m, e |-> e]))

Vec_Push(array, elem) == Vec_new(Append(array.a, elem))
Hash_Keys(hash) == [i \in 1..Len(hash.h) |-> hash.h[i].key]
Hash_Has(hash, key) == \E i \in 1..Len(hash.h) : hash.h[i].key = key
Hash_Fetch(hash, key) ==
    hash.h[CHOOSE i \in 1..Len(hash.h) : hash.h[i].key = key].val
\* Storing under a key the hash already has replaces that entry's value.
Hash_Store(hash, key, val) ==
    IF Hash_Has(hash, key)
    THEN Hash_new([i \in 1..Len(hash.h) |->
                      IF hash.h[i].key = key
                      THEN [key |-> key, val |-> val] ELSE hash.h[i]])
    ELSE Hash_new(Append(hash.h, [key |-> key, val |-> val]))

\* memcmp order of two byte strings, the shorter first on a tie: < 0, 0, > 0.
Str_Compare_To(a, b) ==
    LET n == IF Len(a) <= Len(b) THEN Len(a) ELSE Len(b)
        diff == {i \in 1..n : a[i] # b[i]}
    IN IF diff = {}
       THEN (IF Len(a) < Len(b) THEN -1 ELSE IF Len(a) > Len(b) THEN 1 ELSE 0)
       ELSE LET i == CHOOSE j \in diff : \A l \in diff : j <= l
            IN IF a[i] < b[i] THEN -1 ELSE 1

\* Vec_Sort of a vector of Strings: insertion sort by Str_Compare_To.
SortInsert(sorted, key) ==
    LET n == Cardinality({i \in 1..Len(sorted) :
                             Str_Compare_To(sorted[i].s, key.s) <= 0})
    IN SubSeq(sorted, 1, n) \o <<key>> \o SubSeq(sorted, n + 1, Len(sorted))

RECURSIVE SortFrom(_, _, _)
SortFrom(keys, i, sorted) ==
    IF i > Len(keys) THEN sorted
    ELSE SortFrom(keys, i + 1, SortInsert(sorted, keys[i]))

\* Vec_Sort left out: the keys as Hash_Keys returned them.
Vec_Sort_skipped(keys) == keys

Vec_Sort(keys) == SortFrom(keys, 1, <<>>)

----------------------------------------------------------------------------
(* Number formatting: CB_catf's %i64 and %f64 (the latter is the C         *)
(* library's "%g": six significant digits, exponent form when the decimal  *)
(* exponent is below -4 or at least 6, trailing zeros dropped).            *)

\* The decimal digits of n >= 0, most significant first.
DigitsOf(n) ==
    LET done(st) == st.n = 0
        step(st) == [n |-> st.n \div 10, d |-> <<st.n % 10>> \o st.d]
    IN IF n = 0 THEN <<0>> ELSE While(done, step, [n |-> n, d |-> <<>>]).d

\* The number a sequence of digits spells.
ValueOf(d) ==
    LET done(st) == st.i > Len(d)
        step(st) == [i |-> st.i + 1, v |-> st.v * 10 + d[st.i]]
    IN While(done, step, [i |-> 1, v |-> 0]).v

AsText(d) == [i \in 1..Len(d) |-> 48 + d[i]]

\* d without its trailing zeros (at least one digit is kept).
StripZeros(d) ==
    LET done(st) == Len(st) <= 1 \/ st[Len(st)] # 0
        step(st) == SubSeq(st, 1, Len(st) - 1)
    IN While(done, step, d)

\* "%i64" of CB_catf.
FormatI64(n) ==
    IF n < 0 THEN B("-") \o AsText(DigitsOf(0 - n)) ELSE AsText(DigitsOf(n))

GPrecision == 6

\* The digits of m rounded to GPrecision significant digits (ties to even)
\* and the decimal exponent x of the first of them.
RoundSig(m, e) ==
    LET carry(d2, x) ==
            [d |-> StripZeros(d2), x |-> IF Len(d2) > GPrecision THEN x + 1 ELSE x]
        round(h, r, more, x) ==
            carry(DigitsOf(IF r > 5 \/ (r = 5 /\ (more \/ h % 2 = 1))
                           THEN h + 1 ELSE h), x)
        digits(d, x) ==
            IF Len(d) <= GPrecision THEN [d |-> StripZeros(d), x |-> x]
            ELSE round(ValueOf(SubSeq(d, 1, GPrecision)), d[GPrecision + 1],
                       \E i \in (GPrecision + 2)..Len(d) : d[i] # 0, x)
        exponent(d) == digits(d, Len(d) - 1 + e)
    IN exponent(DigitsOf(m))

Zeros(n) == [i \in 1..n |-> 48]

\* "%f64" of CB_catf.
FormatF64(f) ==
    LET text(sign, x, n, t, ax) ==
            IF x < -4 \/ x >= GPrecision
            THEN sign \o <<t[1]>>
                 \o (IF n > 1 THEN B(".") \o SubSeq(t, 2, n) ELSE <<>>)
                 \o B("e") \o (IF x < 0 THEN B("-") ELSE B("+"))
                 \o (IF ax < 10 THEN B("0") ELSE <<>>) \o AsText(DigitsOf(ax))
            ELSE IF x >= 0
            THEN IF n <= x + 1
                 THEN sign \o t \o Zeros(x + 1 - n)
                 ELSE sign \o SubSeq(t, 1, x + 1) \o B(".") \o SubSeq(t, x + 2, n)
            ELSE sign \o B("0.") \o Zeros(0 - x - 1) \o t
        rounded(sign, r) ==
            text(sign, r.x, Len(r.d), AsText(r.d), IF r.x < 0 THEN 0 - r.x ELSE r.x)
        signed(sign) ==
            IF f.k = "inf" THEN sign \o B("inf")
            ELSE IF f.k = "nan" THEN sign \o B("nan")
            ELSE IF f.m = 0 THEN sign \o B("0")
            ELSE rounded(sign, RoundSig(f.m, f.e))
    IN signed(IF f.neg THEN B("-") ELSE <<>>)

----------------------------------------------------------------------------
(* UTF-8 (Clownfish StrHelp / StringIterator).                             *)

Utf8SeqLen(b) == IF b < 128 THEN 1 ELSE IF b < 224 THEN 2 ELSE IF b < 240 THEN 3 ELSE 4

\* StrIter_Next on trusted UTF-8: the code point that starts at byte i and
\* the number of bytes it takes.
StrIter_Next(s, i) ==
    LET n == Utf8SeqLen(s[i])
    IN [len |-> n,
        cp |-> CASE n = 1 -> s[i]
                 [] n = 2 -> (s[i] % 32) * 64 + (s[i + 1] % 64)
                 [] n = 3 -> (s[i] % 16) * 4096 + (s[i + 1] % 64) * 64
                             + (s[i + 2] % 64)
                 [] n = 4 -> (s[i] % 8) * 262144 + (s[i + 1] % 64) * 4096
                             + (s[i + 2] % 64) * 64 + (s[i + 3] % 64)]

\* StrHelp_encode_utf8_char: the UTF-8 bytes of a code point (none above
\* 0x10FFFF).
StrHelp_encode_utf8_char(cp) ==
    IF cp <= 127 THEN <<cp>>
    ELSE IF cp <= 2047 THEN <<192 + (cp \div 64), 128 + (cp % 64)>>
    ELSE IF cp <= 65535
    THEN <<224 + (cp \div 4096), 128 + ((cp \div 64) % 64), 128 + (cp % 64)>>
    ELSE IF cp <= 1114111
    THEN <<240 + (cp \div 262144), 128 + ((cp \div 4096) % 64),
           128 + ((cp \div 64) % 64), 128 + (cp % 64)>>
    ELSE <<>>

\* StrHelp_utf8_valid at byte i: the length of the well-formed sequence that
\* starts there, 0 if there is none (overlong forms, surrogates, code points
\* above 0x10FFFF and truncated sequences are ill-formed).
Utf8ValidAt(s, i) ==
    LET b == s[i]
        cont(j, lo, hi) == j <= Len(s) /\ s[j] >= lo /\ s[j] <= hi
    IN IF b < 128 THEN 1
       ELSE IF b >= 194 /\ b <= 223
       THEN (IF cont(i + 1, 128, 191) THEN 2 ELSE 0)
       ELSE IF b >= 224 /\ b <= 239
       THEN (IF /\ cont(i + 1, IF b = 224 THEN 160 ELSE 128,
                               IF b = 237 THEN 159 ELSE 191)
                /\ cont(i + 2, 128, 191) THEN 3 ELSE 0)
       ELSE IF b >= 240 /\ b <= 244
       THEN (IF /\ cont(i + 1, IF b = 240 THEN 144 ELSE 128,
                               IF b = 244 THEN 143 ELSE 191)
                /\ cont(i + 2, 128, 191)
                /\ cont(i + 3, 128, 191) THEN 4 ELSE 0)
       ELSE 0

StrHelp_utf8_valid(s) ==
    LET done(st) == st.i > Len(s) \/ ~st.ok
        next(st, n) == [i |-> st.i + n, ok |-> n > 0]
        step(st) == next(st, Utf8ValidAt(s, st.i))
    IN While(done, step, [i |-> 1, ok |-> TRUE]).ok

----------------------------------------------------------------------------
(* The error slot.  mess = "" is the empty slot (no Err object); at is the *)
(* buffer span S_set_error was given (0: none), lim its end; frames counts *)
(* ERR_ADD_FRAME annotations; fault: a NULL Err was dereferenced.          *)

NoError == [mess |-> "", at |-> 0, lim |-> 0, frames |-> 0, fault |-> FALSE]
Err_new(mess) == [mess |-> mess, at |-> 0, lim |-> 0, frames |-> 0, fault |-> FALSE]
\* S_set_error(mess, json, limit): the message, with an excerpt of the text
\* from position at up to lim.
S_set_error(mess, at, lim) ==
    [mess |-> mess, at |-> at, lim |-> lim, frames |-> 0, fault |-> FALSE]
\* StrHelp_back_utf8_char(ptr, start): the first byte before ptr, not before
\* start, that is not a continuation byte; NULL (0) when there is none.
StrHelp_back_utf8_char(buf, ptr, start) ==
    LET found == {p \in start..(ptr - 1) : buf[p] < 128 \/ buf[p] >= 192}
    IN IF found = {} THEN 0 ELSE CHOOSE p \in found : \A q \in found : q <= p

\* Where the buffer may lie in memory.
BufferAddresses == {4096, 1048576}

\* Lines 685-693 of S_set_error: the values len can have when SSTR_WRAP_UTF8
\* is reached.  The difference of a NULL end and json is undefined; the
\* build computes it from the two addresses.  json is at, limit is lim.
SnippetLen(buf, at, lim) ==
    LET trimmed(end) ==
            IF end = 0 THEN {0 - (a + at - 1) : a \in BufferAddresses}
            ELSE {end - at}
    IN IF lim - at > 32 THEN trimmed(StrHelp_back_utf8_char(buf, at + 32, at))
       ELSE IF lim - at < 0 THEN {0}
       ELSE {lim - at}

\* ERR_ADD_FRAME(Err_get_error()): Err_add_frame reads through the Err
\* pointer, so with an empty slot it dereferences NULL (fault).
ERR_ADD_FRAME(e) ==
    IF e.mess = "" THEN [e EXCEPT !.fault = TRUE] ELSE [e EXCEPT !.frames = @ + 1]

----------------------------------------------------------------------------
(* The encoder.                                                            *)

MAX_DEPTH == 200

indentation == B("  ")
INDENTATION_LEN == Len(indentation)

\* sprintf with %X in place of %x.
HexUpper(d) == IF d < 10 THEN 48 + d ELSE 55 + d

HexLower(d) == IF d < 10 THEN 48 + d ELSE 87 + d

\* The switch without case '\"'.
EscapeCodePoint_bare_quote(cp) ==
    IF cp > 127 THEN StrHelp_encode_utf8_char(cp)
    ELSE IF cp <= 7 \/ cp = 11 \/ (cp >= 14 /\ cp <= 31)
    THEN B("\\u") \o <<HexLower((cp \div 4096) % 16), HexLower((cp \div 256) % 16),
                       HexLower((cp \div 16) % 16), HexLower(cp % 16)>>
    ELSE IF cp = 8 THEN B("\\b")
    ELSE IF cp = 9 THEN B("\\t")
    ELSE IF cp = 10 THEN B("\\n")
    ELSE IF cp = 12 THEN B("\\f")
    ELSE IF cp = 13 THEN B("\\r")
    ELSE IF cp = Ord("\\") THEN B("\\\\")
    ELSE <<cp>>

\* What S_append_json_string emits for one code point.
EscapeCodePoint(cp) ==
    IF cp > 127 THEN StrHelp_encode_utf8_char(cp)
    ELSE IF cp <= 7 \/ cp = 11 \/ (cp >= 14 /\ cp <= 31)
    THEN B("\\u") \o <<HexLower((cp \div 4096) % 16), HexLower((cp \div 256) % 16),
                       HexLower((cp \div 16) % 16), HexLower(cp % 16)>>
    ELSE IF cp = 8 THEN B("\\b")
    ELSE IF cp = 9 THEN B("\\t")
    ELSE IF cp = 10 THEN B("\\n")
    ELSE IF cp = 12 THEN B("\\f")
    ELSE IF cp = 13 THEN B("\\r")
    ELSE IF cp = Ord("\\") THEN B("\\\\")
    ELSE IF cp = Ord("\"") THEN B("\\\"")
    ELSE <<cp>>

\* S_append_json_string without the escape table.
S_append_json_string_raw(str, buf) == buf \o B("\"") \o str \o B("\"")

S_append_json_string(str, buf) ==
    LET done(st) == st.i > Len(str)
        step(st) == LET c == StrIter_Next(str, st.i)
                    IN [i |-> st.i + c.len, buf |-> st.buf \o EscapeCodePoint(c.cp)]
    IN While(done, step, [i |-> 1, buf |-> buf \o B("\"")]).buf \o B("\"")

\* S_cat_whitespace that appends one indentation whatever the depth.
S_cat_whitespace_once(buf, depth) == buf \o indentation

S_cat_whitespace(buf, depth) ==
    buf \o [i \in 1..(depth * INDENTATION_LEN) |->
               indentation[((i - 1) % INDENTATION_LEN) + 1]]

\* S_to_json is recursive; each of its activations is a frame: the dump and
\* depth it was called with, where it stands (pc), its loop index i and, for
\* a hash, the sorted keys.  pc = "enter": not started; "inline", "vec",
\* "hash": waiting for the recursive call made at line 303, 315, 358.
NewFrame(obj, depth) ==
    [dump |-> obj, depth |-> depth, pc |-> "enter", i |-> 0, keys |-> <<>>]

Top(m) == m.stack[Len(m.stack)]

\* return: pop the activation, hand the result to the caller's frame.
Return(m, ok) ==
    [m EXCEPT !.stack = SubSeq(@, 1, Len(@) - 1), !.ret = ok]

\* The activation moves on to f and calls S_to_json(obj, buf, f.depth + 1).
CallSelf(m, f, obj) ==
    [m EXCEPT !.stack = SubSeq(@, 1, Len(@) - 1)
                        \o <<f, NewFrame(obj, f.depth + 1)>>]

Cat(m, bytes) == [m EXCEPT !.buf = @ \o bytes]

\* Lines 312-324: the head of the element loop at index f.i.
VecLoop(m, f) ==
    IF f.i < Len(f.dump.a)
    THEN CallSelf([m EXCEPT !.buf = S_cat_whitespace(@ \o <<10>>, f.depth + 1)],
                  [f EXCEPT !.pc = "vec"], f.dump.a[f.i + 1])
    ELSE Return([m EXCEPT !.buf = S_cat_whitespace(@ \o <<10>>, f.depth)
                                  \o B("]")], TRUE)

\* Lines 352-368: the head of the pair loop at index f.i.
HashLoop(m, f) ==
    IF f.i < Len(f.dump.h)
    THEN LET key == f.keys[f.i + 1]
         IN CallSelf([m EXCEPT !.buf = S_append_json_string(key.s,
                                   S_cat_whitespace(@ \o <<10>>, f.depth + 1))
                               \o B(": ")],
                     [f EXCEPT !.pc = "hash"], Hash_Fetch(f.dump, key))
    ELSE Return([m EXCEPT !.buf = S_cat_whitespace(@ \o <<10>>, f.depth)
                                  \o B("}")], TRUE)

\* The guard with the depth counted from 1.
ExceedsMaxDepth_from_one(depth) == depth + 1 > MAX_DEPTH

\* Line 266.
ExceedsMaxDepth(depth) == depth > MAX_DEPTH

\* Lines 264-351: from the entry of S_to_json to its first recursive call or
\* its return.
Enter(m, f) ==
    LET obj == f.dump
    IN IF ExceedsMaxDepth(f.depth)
       THEN Return([m EXCEPT !.err = Err_new("Exceeded max depth of 200")], FALSE)
       ELSE IF obj.t = "null" THEN Return(Cat(m, B("null")), TRUE)
       ELSE IF obj.t = "bool" /\ obj.b THEN Return(Cat(m, B("true")), TRUE)
       ELSE IF obj.t = "bool" THEN Return(Cat(m, B("false")), TRUE)
       ELSE IF obj.t = "str"
       THEN Return([m EXCEPT !.buf = S_append_json_string(obj.s, @)], TRUE)
       ELSE IF obj.t = "int" THEN Return(Cat(m, FormatI64(obj.i)), TRUE)
       ELSE IF obj.t = "float" THEN Return(Cat(m, FormatF64(obj.f)), TRUE)
       ELSE IF obj.t = "arr"
       THEN IF Len(obj.a) = 0 THEN Return(Cat(m, B("[]")), TRUE)
            ELSE IF Len(obj.a) = 1 /\ ~IsContainer(obj.a[1])
            THEN CallSelf(Cat(m, B("[")), [f EXCEPT !.pc = "inline"], obj.a[1])
            ELSE VecLoop(Cat(m, B("[")), f)
       ELSE IF obj.t = "obj"
       THEN IF Len(obj.h) = 0 THEN Return(Cat(m, B("{}")), TRUE)
            ELSE LET keys == Hash_Keys(obj)
                 IN IF \E i \in 1..Len(keys) : keys[i].t # "str"
                    THEN Return([m EXCEPT !.err = Err_new("Illegal key type")],
                                FALSE)
                    ELSE HashLoop(Cat(m, B("{")),
                                  [f EXCEPT !.keys = Vec_Sort(keys)])
       ELSE Return(m, TRUE)

\* One stretch of S_to_json: from where the top activation stands to its
\* next recursive call or its return.
S_to_json_step(m) ==
    LET f == Top(m)
    IN IF f.pc = "enter" THEN Enter(m, f)
       ELSE IF ~m.ret THEN Return(m, FALSE)
       ELSE IF f.pc = "inline" THEN Return(Cat(m, B("]")), TRUE)
       ELSE IF f.pc = "vec"
       THEN VecLoop(IF f.i + 1 < Len(f.dump.a) THEN Cat(m, B(",")) ELSE m,
                    [f EXCEPT !.i = @ + 1])
       ELSE HashLoop(IF f.i + 1 < Len(f.dump.h) THEN Cat(m, B(",")) ELSE m,
                     [f EXCEPT !.i = @ + 1])

S_to_json_done(m) == m.stack = <<>>

\* S_to_json(dump, buf, depth) with the error slot e: the return value, the
\* buffer and the error slot when it returns.
S_to_json(obj, buf, depth, e) ==
    LET returned(m) == [ok |-> m.ret, buf |-> m.buf, err |-> m.err]
    IN returned(While(S_to_json_done, S_to_json_step,
                      [stack |-> <<NewFrame(obj, depth)>>, buf |-> buf,
                       ret |-> TRUE, err |-> e]))

NullString == [null |-> TRUE, bytes |-> <<>>]
String(bytes) == [null |-> FALSE, bytes |-> bytes]

\* Json_to_json without the top-level type check.
Json_to_json_unchecked(obj, tol, e) ==
    LET finish(r) ==
            IF ~r.ok
            THEN [json |-> NullString, err |-> ERR_ADD_FRAME(r.err)]
            ELSE [json |-> String(r.buf \o <<10>>), err |-> r.err]
    IN finish(S_to_json(obj, <<>>, 0, e))

\* Json_to_json where the flag also waives a failure of S_to_json: the text
\* appended so far is returned.
Json_to_json_waiving(obj, tol, e) ==
    LET finish(r) ==
            IF ~r.ok /\ ~tol
            THEN [json |-> NullString, err |-> ERR_ADD_FRAME(r.err)]
            ELSE [json |-> String(r.buf \o <<10>>), err |-> r.err]
    IN IF ~IsContainer(obj) /\ ~tol
       THEN [json |-> NullString, err |-> Err_new("Illegal top-level object type")]
       ELSE finish(S_to_json(obj, <<>>, 0, e))

\* Json_to_json that returns NULL when S_to_json fails and leaves the error
\* slot as the caller had it.
Json_to_json_silent(obj, tol, e) ==
    LET finish(r) ==
            IF ~r.ok
            THEN [json |-> NullString, err |-> e]
            ELSE [json |-> String(r.buf \o <<10>>), err |-> r.err]
    IN IF ~IsContainer(obj) /\ ~tol
       THEN [json |-> NullString, err |-> Err_new("Illegal top-level object type")]
       ELSE finish(S_to_json(obj, <<>>, 0, e))

\* Json_to_json without the DECREF of the buffer on failure: it hands back
\* what S_to_json had appended.
Json_to_json_partial(obj, tol, e) ==
    LET finish(r) ==
            IF ~r.ok
            THEN [json |-> String(r.buf), err |-> ERR_ADD_FRAME(r.err)]
            ELSE [json |-> String(r.buf \o <<10>>), err |-> r.err]
    IN IF ~IsContainer(obj) /\ ~tol
       THEN [json |-> NullString, err |-> Err_new("Illegal top-level object type")]
       ELSE finish(S_to_json(obj, <<>>, 0, e))

\* Json_to_json(dump) with the flag tol and the error slot e: the String*
\* returned and the error slot afterwards.
Json_to_json(obj, tol, e) ==
    LET finish(r) ==
            IF ~r.ok
            THEN [json |-> NullString, err |-> ERR_ADD_FRAME(r.err)]
            ELSE [json |-> String(r.buf \o <<10>>), err |-> r.err]
    IN IF ~IsContainer(obj) /\ ~tol
       THEN [json |-> NullString, err |-> Err_new("Illegal top-level object type")]
       ELSE finish(S_to_json(obj, <<>>, 0, e))

----------------------------------------------------------------------------
(* The C library calls of the lexers.                                      *)

\* The byte at index i of a NUL-terminated copy of t.
AtZ(t, i) == IF i <= Len(t) THEN t[i] ELSE 0

\* The index after the run of bytes satisfying P that starts at index i of
\* the NUL-terminated t.
RunEnd(t, i, P(_)) ==
    LET done(j) == ~P(AtZ(t, j))
        step(j) == j + 1
    IN While(done, step, i)

\* The value of the hexadecimal / decimal digits t[i..j-1].
HexValue(t, i, j) ==
    LET done(st) == st.i >= j
        step(st) == [i |-> st.i + 1, v |-> st.v * 16 + HexVal(t[st.i])]
    IN While(done, step, [i |-> i, v |-> 0]).v

DecValue(t, i, j) ==
    LET done(st) == st.i >= j
        step(st) == [i |-> st.i + 1, v |-> st.v * 10 + (t[st.i] - 48)]
    IN While(done, step, [i |-> i, v |-> 0]).v

IsX(b) == b = Ord("x") \/ b = Ord("X")

\* The index after the optional sign at index i.
SkipSign(t, i) ==
    IF AtZ(t, i) = Ord("-") \/ AtZ(t, i) = Ord("+") THEN i + 1 ELSE i

\* strtol(temp, &num_end, 16) on the NUL-terminated temp: leading isspace
\* bytes, an optional sign, an optional 0x prefix, then hexadecimal digits.
\* val is the result and len is num_end - temp (0: no conversion).
Strtol16(temp) ==
    LET digits(neg, i2, i3) ==
            IF i3 = i2 THEN [val |-> 0, len |-> 0]
            ELSE [val |-> IF neg THEN 0 - HexValue(temp, i2, i3)
                          ELSE HexValue(temp, i2, i3),
                  len |-> i3 - 1]
        prefix(neg, i2) == digits(neg, i2, RunEnd(temp, i2, IsHexDigit))
        sign(neg, i1) ==
            prefix(neg, IF /\ AtZ(temp, i1) = Ord("0") /\ IsX(AtZ(temp, i1 + 1))
                           /\ IsHexDigit(AtZ(temp, i1 + 2))
                        THEN i1 + 2 ELSE i1)
        space(i0) == sign(AtZ(temp, i0) = Ord("-"), SkipSign(temp, i0))
    IN space(RunEnd(temp, 1, IsSpace))

\* isalnum(c) of <ctype.h>.  A byte above 127 reaches it as a negative char
\* or as a locale-dependent code: the answer is the build's (ctype_high).
isalnum(b, high) ==
    IF b > 127 THEN high ELSE IsDigit(b) \/ IsUpper(b) \/ IsLower(b)

Lower(b) == IF IsUpper(b) THEN b + 32 ELSE b

\* Whether the NUL-free word w (lower case) stands at index i of t, in any
\* letter case.
WordAt(t, i, w) ==
    /\ i + Len(w) - 1 <= Len(t)
    /\ \A j \in 1..Len(w) : Lower(t[i + j - 1]) = w[j]

\* 10^n.
Zeros10(n) ==
    LET done(st) == st.n = 0
        step(st) == [n |-> st.n - 1, v |-> st.v * 10]
    IN While(done, step, [n |-> n, v |-> 1]).v

\* The largest and smallest decimal exponents of a finite non-zero double.
DBL_MAX_10_EXP == 308
DBL_TRUE_MIN_10_EXP == -324

\* The double that sign, digits m and exponent e denote: an infinity above
\* DBL_MAX (1.7976931348623157e308), zero below the smallest subnormal.
MakeDouble(neg, m, e) ==
    LET ranged(x, lead) ==
            IF x > DBL_MAX_10_EXP \/ (x = DBL_MAX_10_EXP /\ lead > 179769313)
            THEN DblInf(neg)
            ELSE IF x < DBL_TRUE_MIN_10_EXP THEN Dbl(neg, 0, 0)
            ELSE DblNorm(neg, m, e)
        digits(d) ==
            ranged(Len(d) - 1 + e,
                   ValueOf(SubSeq(d \o <<0, 0, 0, 0, 0, 0, 0, 0, 0>>, 1, 9)))
    IN IF m = 0 THEN Dbl(neg, 0, 0) ELSE digits(DigitsOf(m))

\* strtod(top, &terminus) on a buffer that holds a byte no number contains
\* at or after top: val is the result and len is terminus - top (0: no
\* conversion).  top points at a digit or '-'.  Accepted after the optional
\* sign: "inf", "infinity", "nan", "nan(...)", 0x and hexadecimal digits, or
\* decimal digits with an optional fraction and an optional exponent.
Strtod(t, top) ==
    LET IsWordByte(b) == b = Ord("_") \/ IsDigit(b) \/ IsUpper(b) \/ IsLower(b)
        \* decimal digits with an optional fraction: the digits t[p..i1-1] and
        \* t[f0..f1-1]
        exponent(neg, mant, f0, f1, e0, e1) ==
            IF (AtZ(t, f1) = Ord("e") \/ AtZ(t, f1) = Ord("E")) /\ e1 > e0
            THEN [val |-> MakeDouble(neg, mant,
                                     (IF AtZ(t, f1 + 1) = Ord("-")
                                      THEN 0 - DecValue(t, e0, e1)
                                      ELSE DecValue(t, e0, e1)) - (f1 - f0)),
                  len |-> e1 - top]
            ELSE [val |-> MakeDouble(neg, mant, 0 - (f1 - f0)), len |-> f1 - top]
        mantissa(neg, mant, f0, f1, e0) ==
            exponent(neg, mant, f0, f1, e0, RunEnd(t, e0, IsDigit))
        fraction(neg, p, i1, f0, f1) ==
            IF (i1 - p) + (f1 - f0) = 0 THEN [val |-> Dbl(FALSE, 0, 0), len |-> 0]
            ELSE mantissa(neg,
                          DecValue(t, p, i1) * Zeros10(f1 - f0) + DecValue(t, f0, f1),
                          f0, f1, SkipSign(t, f1 + 1))
        point(neg, p, i1, f0) == fraction(neg, p, i1, f0, RunEnd(t, f0, IsDigit))
        decimal(neg, p, i1) ==
            point(neg, p, i1, IF AtZ(t, i1) = Ord(".") THEN i1 + 1 ELSE i1)
        \* 0x and hexadecimal digits t[p+2..h1-1]
        hexadecimal(neg, p, h1) ==
            [val |-> MakeDouble(neg, HexValue(t, p + 2, h1), 0), len |-> h1 - top]
        \* nan(n-char-sequence), the sequence t[p+4..n1-1]
        nan(neg, p, n1) ==
            IF AtZ(t, p + 3) = Ord("(") /\ AtZ(t, n1) = Ord(")")
            THEN [val |-> DblNan(neg), len |-> n1 + 1 - top]
            ELSE [val |-> DblNan(neg), len |-> p + 3 - top]
        signed(neg, p) ==
            IF WordAt(t, p, B("infinity")) THEN [val |-> DblInf(neg), len |-> p + 8 - top]
            ELSE IF WordAt(t, p, B("inf")) THEN [val |-> DblInf(neg), len |-> p + 3 - top]
            ELSE IF WordAt(t, p, B("nan")) THEN nan(neg, p, RunEnd(t, p + 4, IsWordByte))
            ELSE IF /\ AtZ(t, p) = Ord("0") /\ IsX(AtZ(t, p + 1))
                    /\ IsHexDigit(AtZ(t, p + 2))
            THEN hexadecimal(neg, p, RunEnd(t, p + 2, IsHexDigit))
            ELSE decimal(neg, p, RunEnd(t, p, IsDigit))
    IN signed(AtZ(t, top) = Ord("-"), SkipSign(t, top))

----------------------------------------------------------------------------
(* The grammar (the Lemon-generated LucyParseJson): a push parser fed one  *)
(* token at a time.  stack holds the containers in progress, innermost     *)
(* last; top tells whether the top-level value is still to come ("start")  *)
(* or complete ("end"); result and errors are lucy_JsonParserState.        *)

NewParser == [stack |-> <<>>, top |-> "start", result |-> Null, errors |-> FALSE]

ParseFrame(kind, val, expect) ==
    [kind |-> kind, val |-> val, key |-> Null, expect |-> expect]

SyntaxError(ps) == [ps EXCEPT !.errors = TRUE]

\* Whether a value may come next.
ValueExpected(ps) ==
    IF ps.stack = <<>> THEN ps.top = "start"
    ELSE LET f == ps.stack[Len(ps.stack)]
         IN \/ f.kind = "arr" /\ f.expect \in {"first", "value"}
            \/ f.kind = "obj" /\ f.expect = "val"

\* A complete value v arrives where a value may come: it becomes the result,
\* the next element of the innermost array, or the value of the pending key.
Deliver(ps, v) ==
    IF ~ValueExpected(ps) THEN SyntaxError(ps)
    ELSE IF ps.stack = <<>> THEN [ps EXCEPT !.result = v, !.top = "end"]
    ELSE LET n == Len(ps.stack)
             f == ps.stack[n]
         IN IF f.kind = "arr"
            THEN [ps EXCEPT !.stack[n] =
                     [f EXCEPT !.val = Vec_Push(f.val, v), !.expect = "sep"]]
            ELSE [ps EXCEPT !.stack[n] =
                     [f EXCEPT !.val = Hash_Store(f.val, f.key, v),
                               !.expect = "sep"]]

Pop(ps) == [ps EXCEPT !.stack = SubSeq(@, 1, Len(@) - 1)]

LucyParseJson(ps, token_type, value) ==
    LET n == Len(ps.stack)
        f == ps.stack[n]
        in(kind, expects) == n > 0 /\ f.kind = kind /\ f.expect \in expects
    IN IF token_type = "EOF"
       THEN IF n = 0 /\ ps.top = "end" THEN ps ELSE SyntaxError(ps)
       ELSE IF token_type = "LEFT_SQUARE_BRACKET"
       THEN IF ValueExpected(ps)
            THEN [ps EXCEPT !.stack = Append(@, ParseFrame("arr", Vec_new(<<>>), "first"))]
            ELSE SyntaxError(ps)
       ELSE IF token_type = "LEFT_CURLY_BRACKET"
       THEN IF ValueExpected(ps)
            THEN [ps EXCEPT !.stack = Append(@, ParseFrame("obj", Hash_new(<<>>), "firstkey"))]
            ELSE SyntaxError(ps)
       ELSE IF token_type = "RIGHT_SQUARE_BRACKET"
       THEN IF in("arr", {"first", "sep"}) THEN Deliver(Pop(ps), f.val)
            ELSE SyntaxError(ps)
       ELSE IF token_type = "RIGHT_CURLY_BRACKET"
       THEN IF in("obj", {"firstkey", "sep"}) THEN Deliver(Pop(ps), f.val)
            ELSE SyntaxError(ps)
       ELSE IF token_type = "COMMA"
       THEN IF in("arr", {"sep"}) THEN [ps EXCEPT !.stack[n].expect = "value"]
            ELSE IF in("obj", {"sep"}) THEN [ps EXCEPT !.stack[n].expect = "key"]
            ELSE SyntaxError(ps)
       ELSE IF token_type = "COLON"
       THEN IF in("obj", {"colon"}) THEN [ps EXCEPT !.stack[n].expect = "val"]
            ELSE SyntaxError(ps)
       ELSE IF token_type = "STRING" /\ in("obj", {"firstkey", "key"})
       THEN [ps EXCEPT !.stack[n].key = value, !.stack[n].expect = "colon"]
       ELSE IF token_type \in {"STRING", "NUMBER", "TRUE", "FALSE", "NULL"}
       THEN Deliver(ps, value)
       ELSE SyntaxError(ps)

----------------------------------------------------------------------------
(* The lexers.  A lexer result is [ok, value, next, err]: whether a value  *)
(* was returned, the value, the cursor *json_ptr afterwards and the error  *)
(* slot afterwards.                                                        *)

FollowSet == {32, 10, 13, 9, Ord("]"), Ord("}"), Ord(":"), Ord(",")}

\* S_parse_number without the scan for a terminating byte.
S_parse_number_unbounded(buf, top, limit, e) ==
    LET converted(r) ==
            IF r.len # 0
            THEN [ok |-> TRUE, value |-> Float_new(r.val), next |-> top + r.len,
                  err |-> e]
            ELSE [ok |-> FALSE, value |-> Null, next |-> top,
                  err |-> S_set_error("JSON syntax error", top, limit)]
    IN converted(Strtod(buf, top))

\* S_parse_number that makes an Integer of a literal without fraction.
S_parse_number_integral(buf, top, limit, e) ==
    LET converted(r) ==
            IF (\E end \in top..(limit - 1) : buf[end] \in FollowSet) /\ r.len # 0
            THEN [ok |-> TRUE,
                  value |-> IF r.val.k = "num" /\ r.val.e >= 0
                            THEN Int_new(r.val.m) ELSE Float_new(r.val),
                  next |-> top + r.len, err |-> e]
            ELSE [ok |-> FALSE, value |-> Null, next |-> top,
                  err |-> S_set_error("JSON syntax error", top, limit)]
    IN converted(Strtod(buf, top))

\* Lines 496-531.
S_parse_number(buf, top, limit, e) ==
    LET converted(r) ==
            IF (\E end \in top..(limit - 1) : buf[end] \in FollowSet) /\ r.len # 0
            THEN [ok |-> TRUE, value |-> Float_new(r.val), next |-> top + r.len,
                  err |-> e]
            ELSE [ok |-> FALSE, value |-> Null, next |-> top,
                  err |-> S_set_error("JSON syntax error", top, limit)]
    IN converted(Strtod(buf, top))

\* The escapes that stand for one byte.
\* The switch with case '/' missing.
SimpleEscape_no_slash(c) ==
    CASE c = Ord("\"") -> Ord("\"")
      [] c = Ord("\\") -> Ord("\\")
      [] c = Ord("b") -> 8
      [] c = Ord("f") -> 12
      [] c = Ord("n") -> 10
      [] c = Ord("r") -> 13
      [] c = Ord("t") -> 9
      [] OTHER -> -1

SimpleEscape(c) ==
    CASE c = Ord("\"") -> Ord("\"")
      [] c = Ord("\\") -> Ord("\\")
      [] c = Ord("/") -> Ord("/")
      [] c = Ord("b") -> 8
      [] c = Ord("f") -> 12
      [] c = Ord("n") -> 10
      [] c = Ord("r") -> 13
      [] c = Ord("t") -> 9
      [] OTHER -> -1

\* The range check that lets no half of a surrogate pair through, the high
\* surrogates left out.
IsSurrogate_low_only(code_point) == code_point >= 56320 /\ code_point <= 57343

\* Line 632.
IsSurrogate(code_point) == code_point >= 55296 /\ code_point <= 57343

\* The \u escape without text += 4: the loop goes on at the first of the
\* four bytes.
UnicodeEscape_no_skip(st, end, n) ==
    IF n.len # 4 \/ n.val < 0
    THEN [st EXCEPT !.failed = TRUE,
                    !.err = S_set_error("Invalid \\u escape", st.text, end)]
    ELSE IF IsSurrogate(n.val)
    THEN [st EXCEPT !.failed = TRUE,
                    !.err = S_set_error("Surrogate pairs not supported", st.text, end)]
    ELSE [st EXCEPT !.text = @ + 2,
                    !.target = @ \o StrHelp_encode_utf8_char(n.val)]

\* Lines 618-641: the \u escape whose backslash st.text is on, n being what
\* strtol made of the four bytes after the 'u'.
UnicodeEscape(st, end, n) ==
    IF n.len # 4 \/ n.val < 0
    THEN [st EXCEPT !.failed = TRUE,
                    !.err = S_set_error("Invalid \\u escape", st.text, end)]
    ELSE IF IsSurrogate(n.val)
    THEN [st EXCEPT !.failed = TRUE,
                    !.err = S_set_error("Surrogate pairs not supported", st.text, end)]
    ELSE [st EXCEPT !.text = @ + 6,
                    !.target = @ \o StrHelp_encode_utf8_char(n.val)]

\* Lines 587-647: the loop body with the cursor on st.text.
UnescapeStep(buf, end, st) ==
    LET escape(c, simple) ==
            IF simple >= 0
            THEN [st EXCEPT !.text = @ + 2, !.target = Append(@, simple)]
            ELSE IF c = Ord("u")
            THEN UnicodeEscape(st, end,
                               Strtol16(SubSeq(buf, st.text + 2, st.text + 5)))
            ELSE [st EXCEPT !.failed = TRUE,
                            !.err = S_set_error("Illegal escape", st.text, end)]
        escaped(c) == escape(c, SimpleEscape(c))
    IN IF buf[st.text] # Ord("\\")
       THEN [st EXCEPT !.text = @ + 1, !.target = Append(@, buf[st.text])]
       ELSE escaped(buf[st.text + 1])

\* S_unescape_text(top, end): buf[top..end-1] holds at least one backslash.
\* The loop state: the cursor text, the bytes written to target_buf, and
\* the error of the escape that stopped the loop (if any).
S_unescape_text(buf, top, end, e) ==
    LET done(st) == st.text >= end \/ st.failed
        step(st) == UnescapeStep(buf, end, st)
        finish(r) ==
            IF r.failed THEN [ok |-> FALSE, value |-> Null, err |-> r.err]
            ELSE IF ~StrHelp_utf8_valid(r.target)
            THEN [ok |-> FALSE, value |-> Null, err |-> Err_new("Bad UTF-8 in JSON")]
            ELSE [ok |-> TRUE, value |-> Str_new(r.target), err |-> e]
    IN finish(While(done, step, [text |-> top, target |-> <<>>, failed |-> FALSE,
                                 err |-> e]))

\* The scan with text += 4 for a \u escape: five bytes skipped, not six.
StringScan_five(buf, top, limit) ==
    LET done(st) == st.text >= limit \/ st.end # 0
        step(st) ==
            IF buf[st.text] = Ord("\"") THEN [st EXCEPT !.end = st.text]
            ELSE IF buf[st.text] = Ord("\\")
            THEN IF st.text + 1 < limit /\ buf[st.text + 1] = Ord("u")
                 THEN [st EXCEPT !.saw_backslash = TRUE, !.text = @ + 4 + 1]
                 ELSE [st EXCEPT !.saw_backslash = TRUE, !.text = @ + 1 + 1]
            ELSE [st EXCEPT !.text = @ + 1]
    IN While(done, step, [text |-> top, end |-> 0, saw_backslash |-> FALSE])

\* The scan that does not step over the byte a backslash escapes.
StringScan_unescaped_quote(buf, top, limit) ==
    LET done(st) == st.text >= limit \/ st.end # 0
        step(st) ==
            IF buf[st.text] = Ord("\"") THEN [st EXCEPT !.end = st.text]
            ELSE IF buf[st.text] = Ord("\\")
            THEN [st EXCEPT !.saw_backslash = TRUE, !.text = @ + 1]
            ELSE [st EXCEPT !.text = @ + 1]
    IN While(done, step, [text |-> top, end |-> 0, saw_backslash |-> FALSE])

\* Lines 536-553: the scan for the closing quote from top = *json_ptr + 1.
\* end = 0 stands for the NULL pointer.
StringScan(buf, top, limit) ==
    LET done(st) == st.text >= limit \/ st.end # 0
        step(st) ==
            IF buf[st.text] = Ord("\"") THEN [st EXCEPT !.end = st.text]
            ELSE IF buf[st.text] = Ord("\\")
            THEN IF st.text + 1 < limit /\ buf[st.text + 1] = Ord("u")
                 THEN [st EXCEPT !.saw_backslash = TRUE, !.text = @ + 5 + 1]
                 ELSE [st EXCEPT !.saw_backslash = TRUE, !.text = @ + 1 + 1]
            ELSE [st EXCEPT !.text = @ + 1]
    IN While(done, step, [text |-> top, end |-> 0, saw_backslash |-> FALSE])

\* The span taken as it is.
S_parse_string_trusting(buf, top, end, e) ==
    [ok |-> TRUE, value |-> Str_new(SubSeq(buf, top, end - 1)), err |-> e]

\* Lines 565-574: the literal buf[top..end-1] holds no backslash.
S_parse_string_plain(buf, top, end, e) ==
    IF ~StrHelp_utf8_valid(SubSeq(buf, top, end - 1))
    THEN [ok |-> FALSE, value |-> Null, err |-> Err_new("Bad UTF-8 in JSON")]
    ELSE [ok |-> TRUE, value |-> Str_new(SubSeq(buf, top, end - 1)), err |-> e]

\* Lines 534-575.
S_parse_string(buf, ptr, limit, e) ==
    LET at(r, end) ==
            [ok |-> r.ok, value |-> r.value, next |-> end + 1, err |-> r.err]
        scanned(sc) ==
            IF sc.end = 0
            THEN [ok |-> FALSE, value |-> Null, next |-> ptr,
                  err |-> S_set_error("Unterminated string", ptr, limit)]
            ELSE IF sc.saw_backslash
            THEN at(S_unescape_text(buf, ptr + 1, sc.end, e), sc.end)
            ELSE at(S_parse_string_plain(buf, ptr + 1, sc.end, e), sc.end)
    IN scanned(StringScan(buf, ptr + 1, limit))

\* strncmp(json, keyword, len) == 0 with at least len bytes left in json.
SI_check_keyword(buf, ptr, end, keyword, high) ==
    /\ end - ptr > Len(keyword)
    /\ SubSeq(buf, ptr, ptr + Len(keyword) - 1) = keyword
    /\ buf[ptr + Len(keyword)] # Ord("_")
    /\ ~isalnum(buf[ptr + Len(keyword)], high)

----------------------------------------------------------------------------
(* S_do_parse_json.  Its activation record: the buffer json, the cursor    *)
(* text, the locals save, token_type and value of the last iteration, the  *)
(* grammar's state, the error slot, and pc: "loop" while in the while      *)
(* loop, "flush" when the loop is over, "done" when it has returned ret    *)
(* (Null: the NULL pointer).  failed tells a return on an error path.      *)

Idle ==
    [pc |-> "idle", json |-> <<>>, text |-> 1, save |-> 1, token_type |-> "NONE",
     value |-> Null, state |-> NewParser, err |-> NoError, ret |-> Null,
     failed |-> FALSE]

\* Lines 391-396.
ParseBegin(buf, e) ==
    [Idle EXCEPT !.pc = IF Len(buf) > 0 THEN "loop" ELSE "flush",
                 !.json = buf, !.err = e]

\* A return from inside the loop or after it.
ParseReturn(a, ret, failed) ==
    [a EXCEPT !.pc = "done", !.ret = ret, !.failed = failed]

\* The loop with a token_type of -1 skipped: nothing is fed to the grammar
\* and the loop goes on.
FeedToken_skipping(a, token_type, value, next) ==
    LET end == Len(a.json) + 1
        fed(ps) ==
            IF ps.errors /\ token_type # "NONE"
            THEN ParseReturn([a EXCEPT !.save = a.text, !.text = next,
                                       !.token_type = token_type, !.value = value,
                                       !.state = ps,
                                       !.err = S_set_error("JSON syntax error",
                                                           a.text, end)], Null, TRUE)
            ELSE [a EXCEPT !.save = a.text, !.text = next,
                           !.token_type = token_type, !.value = value,
                           !.state = IF token_type = "NONE" THEN a.state ELSE ps,
                           !.pc = IF next < end THEN "loop" ELSE "flush"]
    IN fed(LucyParseJson(a.state, token_type, value))

\* Lines 479-484: feed the token; syntax error or next iteration.
FeedToken(a, token_type, value, next) ==
    LET end == Len(a.json) + 1
        fed(ps) ==
            IF ps.errors
            THEN ParseReturn([a EXCEPT !.save = a.text, !.text = next,
                                       !.token_type = token_type, !.value = value,
                                       !.state = ps,
                                       !.err = S_set_error("JSON syntax error",
                                                           a.text, end)], Null, TRUE)
            ELSE [a EXCEPT !.save = a.text, !.text = next,
                           !.token_type = token_type, !.value = value,
                           !.state = ps,
                           !.pc = IF next < end THEN "loop" ELSE "flush"]
    IN fed(LucyParseJson(a.state, token_type, value))

\* A lexer has failed, and the state.errors of the flush is tested as it is
\* after the loop (lines 487-490).
LexerFailed_flush_tested(a, r) ==
    LET flushed(ps) ==
            ParseReturn([a EXCEPT !.save = a.text, !.text = r.next,
                                  !.token_type = "NONE", !.value = Null,
                                  !.state = ps,
                                  !.err = IF ps.errors
                                          THEN S_set_error("JSON syntax error", 1,
                                                           Len(a.json) + 1)
                                          ELSE ERR_ADD_FRAME(r.err)], Null, TRUE)
    IN flushed(LucyParseJson(a.state, "EOF", Null))

\* Lines 436-440 and 470-474: a lexer has failed.
LexerFailed(a, r) ==
    ParseReturn([a EXCEPT !.save = a.text, !.text = r.next, !.token_type = "NONE",
                          !.value = Null,
                          !.state = LucyParseJson(a.state, "EOF", Null),
                          !.err = ERR_ADD_FRAME(r.err)], Null, TRUE)

\* What one case of the switch leaves behind: the token type and value, the
\* new position of text, and whether the case left by continue (skip) or by
\* the lexer's failure (~ok).
Token(token_type, value, next) ==
    [skip |-> FALSE, ok |-> TRUE, token_type |-> token_type, value |-> value,
     next |-> next, err |-> NoError]

\* Lines 431-442 and 463-477: the token of a lexer's result r.
Lexed(r, token_type) ==
    IF r.ok THEN Token(token_type, r.value, r.next)
    ELSE [skip |-> FALSE, ok |-> FALSE, token_type |-> "NONE", value |-> Null,
          next |-> r.next, err |-> r.err]

\* Lines 443-462: a keyword case; without a match token_type stays -1 and
\* text stays put.
Keyword(buf, text, end, keyword, high, token_type, value) ==
    IF SI_check_keyword(buf, text, end, keyword, high)
    THEN Token(token_type, value, text + Len(keyword))
    ELSE Token("NONE", Null, text)

\* Lines 398-478: the switch on *text.
Switch(buf, text, end, e, high) ==
    LET case(c) ==
            IF c \in {32, 10, 13, 9}
            THEN [skip |-> TRUE, ok |-> TRUE, token_type |-> "NONE",
                  value |-> Null, next |-> text + 1, err |-> NoError]
            ELSE IF c = Ord("[") THEN Token("LEFT_SQUARE_BRACKET", Null, text + 1)
            ELSE IF c = Ord("]") THEN Token("RIGHT_SQUARE_BRACKET", Null, text + 1)
            ELSE IF c = Ord("{") THEN Token("LEFT_CURLY_BRACKET", Null, text + 1)
            ELSE IF c = Ord("}") THEN Token("RIGHT_CURLY_BRACKET", Null, text + 1)
            ELSE IF c = Ord(":") THEN Token("COLON", Null, text + 1)
            ELSE IF c = Ord(",") THEN Token("COMMA", Null, text + 1)
            ELSE IF c = Ord("\"")
            THEN Lexed(S_parse_string(buf, text, end, e), "STRING")
            ELSE IF c = Ord("n")
            THEN Keyword(buf, text, end, B("null"), high, "NULL", Null)
            ELSE IF c = Ord("t")
            THEN Keyword(buf, text, end, B("true"), high, "TRUE", CFISH_TRUE)
            ELSE IF c = Ord("f")
            THEN Keyword(buf, text, end, B("false"), high, "FALSE", CFISH_FALSE)
            ELSE IF IsDigit(c) \/ c = Ord("-")
            THEN Lexed(S_parse_number(buf, text, end, e), "NUMBER")
            ELSE Token("NONE", Null, text)
    IN case(buf[text])

\* Lines 397-484: one iteration of while (text < end).
ParseIteration(a, high) ==
    LET end == Len(a.json) + 1
        switched(t) ==
            IF t.skip
            THEN [a EXCEPT !.save = a.text, !.text = t.next, !.token_type = "NONE",
                           !.value = Null,
                           !.pc = IF t.next < end THEN "loop" ELSE "flush"]
            ELSE IF ~t.ok THEN LexerFailed(a, t)
            ELSE FeedToken(a, t.token_type, t.value, t.next)
    IN switched(Switch(a.json, a.text, end, a.err, high))

\* Lines 486-492: the end-of-input flush.
ParseFlush(a) ==
    LET flushed(ps) ==
            IF ps.errors
            THEN ParseReturn([a EXCEPT !.state = ps,
                                       !.err = S_set_error("JSON syntax error", 1,
                                                           Len(a.json) + 1)],
                             Null, TRUE)
            ELSE ParseReturn([a EXCEPT !.state = ps], ps.result, FALSE)
    IN flushed(LucyParseJson(a.state, "EOF", Null))

\* One step of S_do_parse_json.
ParseStep(a, high) ==
    IF a.pc = "loop" THEN ParseIteration(a, high) ELSE ParseFlush(a)

S_do_parse_json(buf, e, high) ==
    LET done(a) == a.pc = "done"
        step(a) == ParseStep(a, high)
    IN While(done, step, ParseBegin(buf, e))

\* Json_from_json(json) with the error slot e: dump is the Obj* returned
\* (Null: NULL), err the error slot afterwards, failed whether
\* S_do_parse_json left on an error path.
Json_from_json(str, e, high) ==
    LET returned(a) ==
            [dump |-> a.ret, failed |-> a.failed,
             err |-> IF a.ret = Null THEN ERR_ADD_FRAME(a.err) ELSE a.err]
    IN returned(S_do_parse_json(str.bytes, e, high))

\* Nothing has been returned yet.
NoReturn == [thrown |-> FALSE, mess |-> "", by |-> "", val |-> Null]

----------------------------------------------------------------------------
(* The caller of the encoder: it builds a tree (dump), and the same tree   *)
(* with the keys of every hash stored in the opposite order (twin), then   *)
(* serializes, parses the text back and serializes the parsed tree.        *)

MaxLen == 2     \* elements or keys the caller puts into one container
MaxNest == 1    \* times the caller wraps the tree into a new container

SampleText == <<Ord("a"), Ord("\""), 10, 195, 169, 1, Ord("\\")>>
Scalars ==
    {Null, CFISH_TRUE, Int_new(5), Int_new(1000000), Str_new(SampleText),
     Float_new(Dbl(FALSE, 15, -1))}
Keys == {Str_new(B("b")), Str_new(B("a")), Int_new(1)}

\* Hash_Store on a table that iterates in the opposite order.
TwinStore(hash, key, val) ==
    IF Hash_Has(hash, key) THEN Hash_Store(hash, key, val)
    ELSE Hash_new(<<[key |-> key, val |-> val]>> \o hash.h)

\* How many containers are nested in v, v included.
RECURSIVE Nesting(_)
Nesting(v) ==
    LET Max(S) == IF S = {} THEN 0 ELSE CHOOSE x \in S : \A y \in S : y <= x
    IN IF v.t = "arr" THEN 1 + Max({Nesting(v.a[i]) : i \in 1..Len(v.a)})
       ELSE IF v.t = "obj" THEN 1 + Max({Nesting(v.h[i].val) : i \in 1..Len(v.h)})
       ELSE 0

Fresh ==
    /\ pc = "build"
    /\ tolerant = FALSE
    /\ err = NoError
    /\ json_twin = NullString
    /\ parsed = [dump |-> Null, failed |-> FALSE, err |-> NoError]
    /\ json2 = NullString
    /\ written = 0
    /\ scan = Idle
    /\ calls = <<>>
    /\ retval = NoReturn
    /\ threads = <<>>

Init ==
    /\ Fresh
    /\ json = NullString
    /\ ctype_high = FALSE
    /\ dump \in Scalars \cup {Vec_new(<<>>), Hash_new(<<>>)}
    /\ twin = dump

Push(elem) ==
    /\ pc = "build"
    /\ dump.t = "arr"
    /\ Len(dump.a) < MaxLen
    /\ dump' = Vec_Push(dump, elem)
    /\ twin' = Vec_Push(twin, elem)
    /\ UNCHANGED <<pc, tolerant, err, json, json_twin, parsed, json2, written, scan,
                   ctype_high, calls, retval, threads>>

Store(key, val) ==
    /\ pc = "build"
    /\ dump.t = "obj"
    /\ Hash_Has(dump, key) \/ Len(dump.h) < MaxLen
    /\ dump' = Hash_Store(dump, key, val)
    /\ twin' = TwinStore(twin, key, val)
    /\ UNCHANGED <<pc, tolerant, err, json, json_twin, parsed, json2, written, scan,
                   ctype_high, calls, retval, threads>>

WrapInVec ==
    /\ pc = "build"
    /\ Nesting(dump) <= MaxNest
    /\ dump' = Vec_new(<<dump>>)
    /\ twin' = Vec_new(<<twin>>)
    /\ UNCHANGED <<pc, tolerant, err, json, json_twin, parsed, json2, written, scan,
                   ctype_high, calls, retval, threads>>

WrapInHash ==
    /\ pc = "build"
    /\ Nesting(dump) <= MaxNest
    /\ dump' = Hash_new(<<[key |-> Str_new(B("a")), val |-> dump]>>)
    /\ twin' = Hash_new(<<[key |-> Str_new(B("a")), val |-> twin]>>)
    /\ UNCHANGED <<pc, tolerant, err, json, json_twin, parsed, json2, written, scan,
                   ctype_high, calls, retval, threads>>

\* Lines 172-175.
Json_set_tolerant(tol) ==
    /\ pc = "build"
    /\ tolerant' = tol
    /\ UNCHANGED <<pc, err, dump, twin, json, json_twin, parsed, json2, written, scan,
                   ctype_high, calls, retval, threads>>

\* json = Json_to_json(dump)
Encode ==
    /\ pc = "build"
    /\ LET r == Json_to_json(dump, tolerant, err)
       IN json' = r.json /\ err' = r.err
    /\ pc' = "encoded"
    /\ UNCHANGED <<tolerant, dump, twin, json_twin, parsed, json2, written, scan,
                   ctype_high, calls, retval, threads>>

\* json_twin = Json_to_json(twin)
EncodeTwin ==
    /\ pc = "encoded"
    /\ LET r == Json_to_json(twin, tolerant, err)
       IN json_twin' = r.json /\ err' = r.err
    /\ pc' = "twin"
    /\ UNCHANGED <<tolerant, dump, twin, json, parsed, json2, written, scan,
                   ctype_high, calls, retval, threads>>

\* parsed = Json_from_json(json)
Decode ==
    /\ pc = "encoded"
    /\ ~json.null
    /\ parsed' = Json_from_json(json, err, ctype_high)
    /\ err' = parsed'.err
    /\ pc' = "decoded"
    /\ UNCHANGED <<tolerant, dump, twin, json, json_twin, json2, written, scan,
                   ctype_high, calls, retval, threads>>

\* json2 = Json_to_json(parsed)
Reencode ==
    /\ pc = "decoded"
    /\ ~parsed.failed
    /\ LET r == Json_to_json(parsed.dump, tolerant, err)
       IN json2' = r.json /\ err' = r.err
    /\ pc' = "reencoded"
    /\ UNCHANGED <<tolerant, dump, twin, json, json_twin, parsed, written, scan,
                   ctype_high, calls, retval, threads>>

Next ==
    \/ \E elem \in Scalars : Push(elem)
    \/ \E key \in Keys, val \in Scalars : Store(key, val)
    \/ WrapInVec
    \/ WrapInHash
    \/ \E tol \in BOOLEAN : Json_set_tolerant(tol)
    \/ Encode
    \/ EncodeTwin
    \/ Decode
    \/ Reencode

Spec == Init /\ [][Next]_vars

----------------------------------------------------------------------------
(* Properties of the encoder and of the round trip.                        *)

\* A tree of the value model without Float nodes: Null, Bool, Integer,
\* String, Array, Object with String keys.
RECURSIVE IsIntegerTree(_)
IsIntegerTree(v) ==
    IF v.t = "arr" THEN \A i \in 1..Len(v.a) : IsIntegerTree(v.a[i])
    ELSE IF v.t = "obj"
    THEN \A i \in 1..Len(v.h) : v.h[i].key.t = "str" /\ IsIntegerTree(v.h[i].val)
    ELSE v.t \in {"null", "bool", "int", "str"}

\* Structural equality of v and w, object keys compared as sets.  With
\* variants = TRUE a scalar equals only the same variant with the same
\* value; with variants = FALSE an Integer n of v also equals the Float of
\* the value n in w.
RECURSIVE SameTree(_, _, _)
SameTree(v, w, variants) ==
    IF v.t = "arr"
    THEN /\ w.t = "arr"
         /\ Len(w.a) = Len(v.a)
         /\ \A i \in 1..Len(v.a) : SameTree(v.a[i], w.a[i], variants)
    ELSE IF v.t = "obj"
    THEN /\ w.t = "obj"
         /\ Len(w.h) = Len(v.h)
         /\ {v.h[i].key : i \in 1..Len(v.h)} = {w.h[i].key : i \in 1..Len(w.h)}
         /\ \A i \in 1..Len(v.h), j \in 1..Len(w.h) :
                v.h[i].key = w.h[j].key => SameTree(v.h[i].val, w.h[j].val, variants)
    ELSE IF v.t = "int" /\ ~variants
    THEN /\ w.t = "float"
         /\ w.f = DblNorm(v.i < 0, IF v.i < 0 THEN 0 - v.i ELSE v.i, 0)
    ELSE w = v

\* C1 as claimed: for every value tree whose root is an Object or an Array
\* (elements Null, Bool, Integer, String, Array, Object), serialize succeeds,
\* parse of the text succeeds, and the parsed tree equals the tree, keys as
\* sets, every scalar by variant and value.
C1_RoundTripExact ==
    IsContainer(dump) /\ IsIntegerTree(dump) =>
        /\ pc # "build" => ~json.null
        /\ pc \in {"decoded", "reencoded"} =>
               ~parsed.failed /\ SameTree(dump, parsed.dump, TRUE)

\* C1 amended: for every such tree on which serialize succeeds, parse of the
\* text succeeds and the parsed tree equals the tree, keys as sets, except
\* that every Integer n has come back as the Float of value n.
C1_RoundTrip ==
    /\ pc \in {"decoded", "reencoded"}
    /\ IsContainer(dump)
    /\ IsIntegerTree(dump)
    => /\ ~parsed.failed
       /\ parsed.err = NoError
       /\ SameTree(dump, parsed.dump, FALSE)

C1_Witness ==
    /\ pc = "decoded"
    /\ dump.t = "obj"
    /\ Len(dump.h) = 2
    /\ \E i \in 1..2 : dump.h[i].val.t = "int"
    /\ \E i \in 1..2 : dump.h[i].val = Str_new(SampleText)
    /\ ~parsed.failed
    /\ parsed.dump.t = "obj"

\* C2 as claimed: for every tree with an Object or Array root on which
\* serialize succeeds, serializing the parsed text succeeds and gives the
\* same bytes as the first serialization.
C2_Idempotent ==
    /\ pc = "decoded" /\ IsContainer(dump) => ~parsed.failed
    /\ pc = "reencoded" /\ IsContainer(dump) => ~json2.null /\ json2 = json

\* a < b in lexicographic byte order.
BytesLess(a, b) ==
    \E i \in 1..(Len(a) + 1) :
        /\ i <= Len(b)
        /\ \A j \in 1..(i - 1) : a[j] = b[j]
        /\ i = Len(a) + 1 \/ a[i] < b[i]

\* Every object of the tree lists its keys in strictly ascending byte order.
RECURSIVE KeysAscending(_)
KeysAscending(v) ==
    IF v.t = "arr" THEN \A i \in 1..Len(v.a) : KeysAscending(v.a[i])
    ELSE IF v.t = "obj"
    THEN /\ \A i \in 1..Len(v.h) : KeysAscending(v.h[i].val)
         /\ \A i \in 1..(Len(v.h) - 1) : BytesLess(v.h[i].key.s, v.h[i + 1].key.s)
    ELSE TRUE

\* C3: two Objects with the same mapping whose keys were stored in different
\* orders serialize to the same bytes, and the text lists the keys of every
\* object in strictly ascending byte order (read off the text by parsing it,
\* which keeps the order of appearance).
C3_Determinism ==
    /\ pc = "twin" => json_twin = json
    /\ pc = "decoded" /\ ~parsed.failed => KeysAscending(parsed.dump)

C3_Witness ==
    /\ pc = "twin"
    /\ dump.t = "obj"
    /\ Len(dump.h) = 2
    /\ dump.h[1].key = Str_new(B("b"))
    /\ twin.h[1].key = Str_new(B("a"))
    /\ ~json.null
    /\ json_twin = json

\* The text of the scalars the caller uses, by the formatting rules.
ScalarText(v) ==
    IF v = Null THEN B("null")
    ELSE IF v = CFISH_TRUE THEN B("true")
    ELSE IF v = Int_new(5) THEN B("5")
    ELSE IF v = Int_new(1000000) THEN B("1000000")
    ELSE IF v = Float_new(Dbl(FALSE, 15, -1)) THEN B("1.5")
    ELSE B("\"a\\\"\\n") \o <<195, 169>> \o B("\\u0001\\\\\"")

\* C4: a root that is neither Object nor Array: with the flag off, serialize
\* returns no text and sets the illegal top-level object type error; with
\* the flag on, it returns the scalar's text followed by a newline.
C4_TopLevel ==
    pc = "encoded" /\ ~IsContainer(dump) =>
        IF tolerant
        THEN ~json.null /\ json.bytes = ScalarText(dump) \o <<10>>
        ELSE json.null /\ err.mess = "Illegal top-level object type"

C4_Witness ==
    /\ pc = "encoded"
    /\ tolerant
    /\ dump = Int_new(5)
    /\ json = String(B("5") \o <<10>>)

----------------------------------------------------------------------------
(* The caller that nests arrays: it starts with an empty array, wraps it   *)
(* into new arrays, some at a time, and serializes.                        *)

MaxChain == 203     \* arrays the caller nests
MaxStride == 50     \* arrays the caller wraps around the tree in one go

\* v inside k new arrays.
Wrapped(v, k) ==
    LET done(st) == st.k = 0
        step(st) == [v |-> Vec_new(<<st.v>>), k |-> st.k - 1]
    IN While(done, step, [v |-> v, k |-> k]).v

\* The number of arrays on the chain from the root v to its innermost array.
ChainDepth(v) ==
    LET done(st) == st.v.t # "arr"
        step(st) == [v |-> IF Len(st.v.a) = 0 THEN Null ELSE st.v.a[1],
                     n |-> st.n + 1]
    IN While(done, step, [v |-> v, n |-> 0]).n

InitDepth ==
    /\ Fresh
    /\ json = NullString
    /\ ctype_high = FALSE
    /\ dump = Vec_new(<<>>)
    /\ twin = dump

Nest(k) ==
    /\ pc = "build"
    /\ ChainDepth(dump) + k <= MaxChain
    /\ dump' = Wrapped(dump, k)
    /\ twin' = dump'
    /\ UNCHANGED <<pc, tolerant, err, json, json_twin, parsed, json2, written, scan,
                   ctype_high, calls, retval, threads>>

NextDepth == (\E k \in 1..MaxStride : Nest(k)) \/ Encode

SpecDepth == InitDepth /\ [][NextDepth]_vars

\* C5 as claimed: a chain of nested arrays of depth 200 (a lone empty array
\* has depth 1) serializes, and a chain of depth 201 fails with the
\* exceeded-max-depth error.
C5_DepthLimit ==
    pc = "encoded" =>
        /\ ChainDepth(dump) = 200 => ~json.null
        /\ ChainDepth(dump) = 201 =>
               json.null /\ err.mess = "Exceeded max depth of 200"

\* C5 amended: the limit MAX_DEPTH = 200 is compared (depth > MAX_DEPTH)
\* against the recursion depth, the root at recursion depth 0, so that a
\* chain of n nested arrays, whose innermost array is at recursion depth
\* n - 1, serializes for every n up to 201 and fails with the
\* exceeded-max-depth error from n = 202 on.
C5_Depth ==
    pc = "encoded" =>
        IF ChainDepth(dump) <= MAX_DEPTH + 1
        THEN ~json.null /\ err = NoError
        ELSE json.null /\ err.mess = "Exceeded max depth of 200" /\ ~err.fault

C5_Witness ==
    /\ pc = "encoded"
    /\ ChainDepth(dump) = MAX_DEPTH + 2
    /\ json.null
    /\ err.mess = "Exceeded max depth of 200"

----------------------------------------------------------------------------
(* The caller of the parser: it writes a text piece by piece, then calls   *)
(* Json_from_json, which runs S_do_parse_json one loop iteration at a time.*)

MaxPieces == 3      \* pieces of text the caller writes

Write(piece) ==
    /\ pc = "build"
    /\ written < MaxPieces
    /\ json' = String(json.bytes \o piece)
    /\ written' = written + 1
    /\ UNCHANGED <<pc, tolerant, err, dump, twin, json_twin, parsed, json2, scan,
                   ctype_high, calls, retval, threads>>

\* Json_from_json is called: S_parse_json enters S_do_parse_json (lines 95-98,
\* 384, 391-396).
EnterParse ==
    /\ pc = "build"
    /\ pc' = "parsing"
    /\ scan' = ParseBegin(json.bytes, err)
    /\ UNCHANGED <<tolerant, err, dump, twin, json, json_twin, parsed, json2, written,
                   ctype_high, calls, retval, threads>>

\* One iteration of the tokenizer loop.
Iterate ==
    /\ pc = "parsing"
    /\ scan.pc = "loop"
    /\ scan' = ParseIteration(scan, ctype_high)
    /\ UNCHANGED <<pc, tolerant, err, dump, twin, json, json_twin, parsed, json2,
                   written, ctype_high, calls, retval, threads>>

\* The loop has ended: the end-of-input flush.
Flush ==
    /\ pc = "parsing"
    /\ scan.pc = "flush"
    /\ scan' = ParseFlush(scan)
    /\ UNCHANGED <<pc, tolerant, err, dump, twin, json, json_twin, parsed, json2,
                   written, ctype_high, calls, retval, threads>>

\* S_do_parse_json has returned: Json_from_json returns (lines 98-102).
LeaveParse ==
    /\ pc = "parsing"
    /\ scan.pc = "done"
    /\ parsed' = [dump |-> scan.ret, failed |-> scan.failed,
                  err |-> IF scan.ret = Null THEN ERR_ADD_FRAME(scan.err)
                          ELSE scan.err]
    /\ err' = parsed'.err
    /\ pc' = "parsed"
    /\ UNCHANGED <<tolerant, dump, twin, json, json_twin, json2, written, scan,
                   ctype_high, calls, retval, threads>>

Parsing == EnterParse \/ Iterate \/ Flush \/ LeaveParse

InitParse ==
    /\ Fresh
    /\ dump = Null
    /\ twin = Null

\* Texts around keywords.
KeywordPieces ==
    {B("null"), B("true"), B("false"), B("nul"), B("i"), B("9"), B("_"), <<233>>,
     B("["), B("]"), B(","), B(" ")}

InitKeyword ==
    /\ InitParse
    /\ json = String(<<>>)
    /\ ctype_high \in BOOLEAN

NextKeyword == (\E piece \in KeywordPieces : Write(piece)) \/ Parsing

SpecKeyword == InitKeyword /\ [][NextKeyword]_vars

\* Texts around numbers.
NumberPieces ==
    {B("1"), B("23"), B("-"), B(".5"), B("e5"), B("x"), B("["), B("]"), B(","),
     B(" "), <<10>>}

InitNumber ==
    /\ InitParse
    /\ json = String(<<>>)
    /\ ctype_high = FALSE

NextNumber == (\E piece \in NumberPieces : Write(piece)) \/ Parsing

SpecNumber == InitNumber /\ [][NextNumber]_vars

\* What the caller puts after an opening quote.
StringPieces ==
    {B("\""), B("a"), <<195>>, <<169>>, <<255>>, B("\\n"), B("\\\\"), B("\\q"),
     B("\\u0041"), B("\\u00e9"), B("\\uD800"), B("\\uDC00"), B("\\u+041"),
     B("\\u 123"), B("\\u0x12"), B("\\u-000"), B("\\u-001")}

InitString ==
    /\ InitParse
    /\ json = String(B("\""))
    /\ ctype_high = FALSE

NextString == (\E piece \in StringPieces : Write(piece)) \/ Parsing

SpecString == InitString /\ [][NextString]_vars

----------------------------------------------------------------------------
(* Claims about the tokenizer.  A step taken while pc = "parsing" and      *)
(* scan.pc = "loop" is one iteration of the loop of S_do_parse_json, with  *)
(* the cursor on scan.text before it and the token it made in scan' after. *)

Keywords ==
    {[text |-> B("null"), token_type |-> "NULL"],
     [text |-> B("true"), token_type |-> "TRUE"],
     [text |-> B("false"), token_type |-> "FALSE"]}

\* The bytes of buf from position p on spell word.
Spells(buf, p, word) ==
    /\ p + Len(word) - 1 <= Len(buf)
    /\ SubSeq(buf, p, p + Len(word) - 1) = word

\* Position q is the buffer limit, or holds a byte that is neither '_' nor
\* alphanumeric.
KeywordBoundary(buf, q, high) ==
    \/ q = Len(buf) + 1
    \/ q <= Len(buf) /\ buf[q] # Ord("_") /\ ~isalnum(buf[q], high)

\* C6: at a cursor position whose bytes spell null, true or false, the
\* iteration produces the keyword token if and only if the keyword ends at
\* the buffer limit or the byte after it is neither '_' nor alphanumeric.
C6_KeywordBoundary ==
    [][\A kw \in Keywords :
          (pc = "parsing" /\ scan.pc = "loop"
           /\ Spells(scan.json, scan.text, kw.text))
          => ((/\ scan'.token_type = kw.token_type
               /\ scan'.save = scan.text
               /\ scan'.text = scan.text + Len(kw.text))
              <=> KeywordBoundary(scan.json, scan.text + Len(kw.text),
                                  ctype_high))]_vars

\* The whole input "true" has been parsed and rejected.
C6_Witness ==
    /\ pc = "parsed"
    /\ json.bytes = B("true")
    /\ parsed.failed
    /\ err.mess = "JSON syntax error"

\* C7: an iteration with the cursor on a digit or '-' produces a number
\* token, a Float, that ends where the numeric-text parser stopped, if and
\* only if a byte of the follow set occurs somewhere from the cursor to the
\* limit and the numeric-text parser consumes at least one byte; otherwise
\* the parse fails with a syntax error.  The text "123" is rejected, and the
\* same digits followed by a newline are accepted.
C7_NumberBoundary ==
    [][/\ (pc = "parsing" /\ scan.pc = "loop"
           /\ (IsDigit(scan.json[scan.text]) \/ scan.json[scan.text] = Ord("-")))
          => IF /\ \E q \in scan.text..Len(scan.json) : scan.json[q] \in FollowSet
                /\ Strtod(scan.json, scan.text).len >= 1
             THEN /\ scan'.token_type = "NUMBER"
                  /\ scan'.value.t = "float"
                  /\ scan'.save = scan.text
                  /\ scan'.text = scan.text + Strtod(scan.json, scan.text).len
             ELSE /\ scan'.token_type # "NUMBER"
                  /\ scan'.pc = "done"
                  /\ scan'.failed
                  /\ scan'.ret = Null
                  /\ scan'.err.mess = "JSON syntax error"
       /\ (pc' = "parsed" /\ json'.bytes = B("123"))
          => parsed'.failed /\ err'.mess = "JSON syntax error"
       /\ (pc' = "parsed" /\ json'.bytes = B("123") \o <<10>>)
          => /\ ~parsed'.failed
             /\ parsed'.dump = Float_new(Dbl(FALSE, 123, 0))]_vars

\* A number token has been produced whose next byte is not of the follow
\* set: the follow-set byte comes later in the buffer.
C7_Witness ==
    /\ pc = "parsing"
    /\ scan.token_type = "NUMBER"
    /\ scan.text <= Len(scan.json)
    /\ scan.json[scan.text] \notin FollowSet
    /\ \E q \in scan.text..Len(scan.json) : scan.json[q] \in FollowSet

----------------------------------------------------------------------------
(* Claims about string literals.  The text starts with a quote, so its     *)
(* first token is the string literal that opens at position 1.  The        *)
(* definitions below read the literal from the text itself.                *)

\* The number of backslashes in a row that end right before position i.
BackslashRun(buf, i) ==
    CHOOSE n \in 0..(i - 1) :
        /\ \A k \in 1..n : buf[i - k] = Ord("\\")
        /\ (i - n - 1 < 1 \/ buf[i - n - 1] # Ord("\\"))

\* The byte at position i is not escaped by a backslash before it.
Unescaped(buf, i) == BackslashRun(buf, i) % 2 = 0

\* The closing quote of the literal that opens at position 1 (0: none).
LiteralEnd(buf) ==
    LET quotes == {i \in 2..Len(buf) : buf[i] = Ord("\"") /\ Unescaped(buf, i)}
    IN IF quotes = {} THEN 0 ELSE CHOOSE i \in quotes : \A j \in quotes : i <= j

\* The positions of the backslashes that start an escape of the literal.
Escapes(buf) ==
    {i \in 2..(LiteralEnd(buf) - 1) : buf[i] = Ord("\\") /\ Unescaped(buf, i)}

HexDigit(b) ==
    \/ b >= Ord("0") /\ b <= Ord("9")
    \/ b >= Ord("a") /\ b <= Ord("f")
    \/ b >= Ord("A") /\ b <= Ord("F")

HexDigitValue(b) ==
    IF b <= Ord("9") THEN b - Ord("0")
    ELSE IF b >= Ord("a") THEN b - Ord("a") + 10
    ELSE b - Ord("A") + 10

\* The escape at i is a backslash, a 'u' and four more bytes of the literal.
UnicodeEscapeAt(buf, i) == buf[i + 1] = Ord("u") /\ i + 5 < LiteralEnd(buf)

\* The four bytes after the 'u' are hexadecimal digits.
FourHexDigits(buf, i) == \A k \in 2..5 : HexDigit(buf[i + k])

FourHexValue(buf, i) ==
    HexDigitValue(buf[i + 2]) * 4096 + HexDigitValue(buf[i + 3]) * 256
    + HexDigitValue(buf[i + 4]) * 16 + HexDigitValue(buf[i + 5])

\* The escape at i is \uXXXX with a value in 0xD800..0xDFFF.
SurrogateEscape(buf, i) ==
    /\ UnicodeEscapeAt(buf, i)
    /\ FourHexDigits(buf, i)
    /\ FourHexValue(buf, i) >= 55296
    /\ FourHexValue(buf, i) <= 57343

\* The escape at i is one of the eight simple escapes or \u with four
\* hexadecimal digits.
WellFormedEscape(buf, i) ==
    \/ buf[i + 1] \in {Ord("\""), Ord("\\"), Ord("/"), Ord("b"), Ord("f"),
                       Ord("n"), Ord("r"), Ord("t")}
    \/ UnicodeEscapeAt(buf, i) /\ FourHexDigits(buf, i)

\* The first literal of the text is terminated and holds a surrogate escape.
HoldsSurrogate(buf) ==
    /\ LiteralEnd(buf) > 0
    /\ \E i \in Escapes(buf) : SurrogateEscape(buf, i)

\* C8 as stated: every string literal that contains a \uXXXX escape with a
\* value in 0xD800..0xDFFF makes the parse fail with the error "Surrogate
\* pairs not supported".
C8_SurrogateAlways ==
    (pc = "parsed" /\ HoldsSurrogate(json.bytes))
    => /\ parsed.failed
       /\ parsed.dump = Null
       /\ err.mess = "Surrogate pairs not supported"

\* C8, amended: every string literal that contains a \uXXXX escape with a
\* value in 0xD800..0xDFFF makes the parse fail, also when a low surrogate
\* escape follows a high one, so no pair is ever combined; the error is
\* "Surrogate pairs not supported" when every escape of the literal before
\* the first surrogate escape is well formed, and an escape error otherwise.
C8_Surrogate ==
    (pc = "parsed" /\ HoldsSurrogate(json.bytes))
    => /\ parsed.failed
       /\ parsed.dump = Null
       /\ err.mess \in {"Surrogate pairs not supported", "Illegal escape",
                        "Invalid \\u escape"}
       /\ (\A i \in Escapes(json.bytes) :
              SurrogateEscape(json.bytes, i)
              => \/ err.mess = "Surrogate pairs not supported"
                 \/ \E j \in Escapes(json.bytes) :
                       j < i /\ ~WellFormedEscape(json.bytes, j))

\* A high surrogate escape followed by a low one has been rejected.
C8_Witness ==
    /\ pc = "parsed"
    /\ json.bytes = B("\"\\uD800\\uDC00\"")
    /\ parsed.failed
    /\ err.mess = "Surrogate pairs not supported"

\* The first escape of the literal (0: the literal holds none).
FirstEscape(buf) ==
    IF Escapes(buf) = {} THEN 0
    ELSE CHOOSE i \in Escapes(buf) : \A j \in Escapes(buf) : i <= j

\* C9: a \u escape is decoded if and only if each of the four bytes after
\* the 'u' is a hexadecimal digit, and for every other four bytes the parse
\* fails with the error "Invalid \u escape".  Stated of the first escape of
\* the literal, which no earlier error can mask; an escape of four
\* hexadecimal digits is decoded or, being a surrogate, rejected as one.
C9_FourHexDigits ==
    (/\ pc = "parsed"
     /\ LiteralEnd(json.bytes) > 0
     /\ FirstEscape(json.bytes) > 0
     /\ UnicodeEscapeAt(json.bytes, FirstEscape(json.bytes)))
    => IF FourHexDigits(json.bytes, FirstEscape(json.bytes))
       THEN err.mess # "Invalid \\u escape"
       ELSE /\ parsed.failed
            /\ parsed.dump = Null
            /\ err.mess = "Invalid \\u escape"

\* A \u escape with a sign in place of a digit has been decoded.
C9_Witness ==
    /\ pc = "parsed"
    /\ json.bytes = B("\"\\u+041\"")
    /\ ~parsed.failed
    /\ parsed.dump = Str_new(B("A"))

\* A sequence of n bytes at position i that encodes, in the shortest form, a
\* code point that is not a surrogate and not above 0x10FFFF.
EncodesScalar(s, i, n) ==
    LET tail(j) == s[j] >= 128 /\ s[j] <= 191
        bits(j) == s[j] - 128
    IN /\ i + n - 1 <= Len(s)
       /\ CASE n = 1 -> s[i] <= 127
            [] n = 2 -> /\ s[i] >= 192 /\ s[i] <= 223 /\ tail(i + 1)
                        /\ (s[i] - 192) * 64 + bits(i + 1) >= 128
            [] n = 3 -> /\ s[i] >= 224 /\ s[i] <= 239 /\ tail(i + 1) /\ tail(i + 2)
                        /\ LET cp == (s[i] - 224) * 4096 + bits(i + 1) * 64
                                     + bits(i + 2)
                           IN cp >= 2048 /\ ~(cp >= 55296 /\ cp <= 57343)
            [] n = 4 -> /\ s[i] >= 240 /\ s[i] <= 247
                        /\ tail(i + 1) /\ tail(i + 2) /\ tail(i + 3)
                        /\ LET cp == (s[i] - 240) * 262144 + bits(i + 1) * 4096
                                     + bits(i + 2) * 64 + bits(i + 3)
                           IN cp >= 65536 /\ cp <= 1114111

\* s is a concatenation of encoded scalar values.
WellFormedUtf8(s) ==
    LET ok[i \in 1..(Len(s) + 1)] ==
            \/ i = Len(s) + 1
            \/ \E n \in 1..4 : EncodesScalar(s, i, n) /\ ok[i + n]
    IN ok[1]

\* The bytes of the literal with every escape replaced by one ASCII byte:
\* ill formed exactly when the unescaped bytes are, if every escape stands
\* for a well-formed sequence.
Skeleton(buf) ==
    LET inside(j) ==
            \E i \in Escapes(buf) :
                j > i /\ j <= i + (IF buf[i + 1] = Ord("u") THEN 5 ELSE 1)
        kept == {j \in 2..(LiteralEnd(buf) - 1) : ~inside(j)}
        nth(n) == CHOOSE j \in kept : Cardinality({k \in kept : k <= j}) = n
    IN [n \in 1..Cardinality(kept) |->
           IF nth(n) \in Escapes(buf) THEN Ord("X") ELSE buf[nth(n)]]

\* C10: every String the tokenizer hands to the grammar, and so every String
\* of a tree that a successful parse returns, is well-formed UTF-8; a
\* literal whose raw bytes, or whose bytes after unescaping, are ill formed
\* makes the parse fail with the error "Bad UTF-8 in JSON" and return NULL.
C10_WellFormedStrings ==
    /\ (pc = "parsing" /\ scan.token_type = "STRING")
       => WellFormedUtf8(scan.value.s)
    /\ (pc = "parsed" /\ ~parsed.failed /\ parsed.dump.t = "str")
       => WellFormedUtf8(parsed.dump.s)
    /\ (/\ pc = "parsed"
        /\ LiteralEnd(json.bytes) > 0
        /\ \A i \in Escapes(json.bytes) :
              WellFormedEscape(json.bytes, i) /\ ~SurrogateEscape(json.bytes, i)
        /\ ~WellFormedUtf8(Skeleton(json.bytes)))
       => /\ parsed.failed
          /\ parsed.dump = Null
          /\ err.mess = "Bad UTF-8 in JSON"

\* A literal with a two-byte character has been parsed into a String.
C10_Witness ==
    /\ pc = "parsed"
    /\ json.bytes = <<Ord("\""), 195, 169, Ord("\"")>>
    /\ ~parsed.failed
    /\ parsed.dump = Str_new(<<195, 169>>)

----------------------------------------------------------------------------
(* The caller of both entry points, with the global error slot empty or    *)
(* still holding the error of an earlier call: it serializes the tree it   *)
(* holds, or writes a text and parses it.                                  *)

\* An error that an earlier call has left in the slot.
StaleError == Err_new("stale")

\* Trees that serialize, and trees that fail at the root or below it.
SlotDumps ==
    {Null, Int_new(5), Vec_new(<<>>), Vec_new(<<Int_new(5), Str_new(B("a"))>>),
     Hash_new(<<[key |-> Int_new(1), val |-> Null]>>),
     Vec_new(<<Str_new(B("a")),
               Hash_new(<<[key |-> Str_new(B("a")), val |-> CFISH_TRUE],
                          [key |-> Int_new(1), val |-> Null]>>)>>)}

SlotPieces == {B("null"), B(" "), B("["), B("]"), B("1"), B("\"")}

InitSlot ==
    /\ pc = "build"
    /\ tolerant \in BOOLEAN
    /\ err \in {NoError, StaleError}
    /\ dump \in SlotDumps
    /\ twin = dump
    /\ json = String(<<>>)
    /\ json_twin = NullString
    /\ parsed = [dump |-> Null, failed |-> FALSE, err |-> NoError]
    /\ json2 = NullString
    /\ written = 0
    /\ scan = Idle
    /\ calls = <<>>
    /\ retval = NoReturn
    /\ threads = <<>>
    /\ ctype_high = FALSE

NextSlot == (\E piece \in SlotPieces : Write(piece)) \/ Parsing \/ Encode

SpecSlot == InitSlot /\ [][NextSlot]_vars

\* The slot holds an error that the call has put there: not the empty slot,
\* not the error it held before, and no Err was reached through NULL.
Replaced(before, after) ==
    after.mess # "" /\ after.mess # before.mess /\ ~after.fault

\* C11: every call of parse and of serialize that returns the failure
\* indicator (NULL) has replaced the global error slot during the call.
C11_ResultOrError ==
    [][/\ (pc = "parsing" /\ pc' = "parsed" /\ parsed'.dump = Null)
          => Replaced(err, err')
       /\ (pc = "build" /\ pc' = "encoded" /\ json'.null)
          => Replaced(err, err')]_vars

\* Parse of "null " has returned NULL with the stale error still in the
\* slot.
C11_Witness ==
    /\ pc = "parsed"
    /\ json.bytes = B("null ")
    /\ parsed.dump = Null
    /\ err.mess = StaleError.mess
\* What S_to_json had appended to its buffer when it failed on dump: <<>>
\* when it succeeds or fails before appending anything.
AppendedBeforeFailure(obj) ==
    LET partial(r) == IF r.ok THEN <<>> ELSE r.buf
    IN partial(S_to_json(obj, <<>>, 0, NoError))

\* The grammar holds part of a tree: a container in progress or a complete
\* top-level value.
TokensConsumed(ps) == ps.stack # <<>> \/ ps.top = "end"

\* C12: a serialize that fails after it has appended text to its buffer
\* returns no text at all, and a parse that fails after it has consumed
\* well-formed tokens (in the tokenizer, in the grammar, or at a premature
\* end of input) returns no value.
C12_NoPartialResults ==
    /\ (pc = "encoded" /\ AppendedBeforeFailure(dump) # <<>>) => json.null
    /\ (pc = "parsed" /\ parsed.failed /\ TokensConsumed(scan.state))
           => parsed.dump = Null

C12_Witness ==
    /\ pc = "parsed" /\ json.bytes = B("[1\"") /\ parsed.failed
    /\ scan.token_type = "NONE" /\ Len(scan.state.stack) = 1
    /\ parsed.dump = Null

----------------------------------------------------------------------------
(* The caller of the parser, token by token: it writes up to MaxTokens     *)
(* tokens or blanks to the text and calls Json_from_json on it.            *)

MaxTokens == 5

TokenPieces ==
    {B("["), B("]"), B("{"), B("}"), B(","), B(":"), B("\"a\""), B("null"), B(" ")}

WriteToken(piece) ==
    /\ pc = "build"
    /\ written < MaxTokens
    /\ json' = String(json.bytes \o piece)
    /\ written' = written + 1
    /\ UNCHANGED <<pc, tolerant, err, dump, twin, json_twin, parsed, json2, scan,
                   ctype_high, calls, retval, threads>>

\* parsed = Json_from_json(json)
Parse ==
    /\ pc = "build"
    /\ parsed' = Json_from_json(json, err, ctype_high)
    /\ err' = parsed'.err
    /\ pc' = "parsed"
    /\ UNCHANGED <<tolerant, dump, twin, json, json_twin, json2, written, scan,
                   ctype_high, calls, retval, threads>>

InitGrammar ==
    /\ Fresh
    /\ dump = Null /\ twin = Null
    /\ json = String(<<>>)
    /\ ctype_high = FALSE

NextGrammar == (\E piece \in TokenPieces : WriteToken(piece)) \/ Parse

SpecGrammar == InitGrammar /\ [][NextGrammar]_vars

\* The tokens of a text made of TokenPieces, blanks left out: each token is
\* known by its first byte (a quote: the string, n: null).
RECURSIVE TokensFrom(_, _)
TokensFrom(s, i) ==
    IF i > Len(s) THEN <<>>
    ELSE IF s[i] = Ord(" ") THEN TokensFrom(s, i + 1)
    ELSE IF s[i] = Ord("n") THEN <<Ord("n")>> \o TokensFrom(s, i + 4)
    ELSE IF s[i] = Ord("\"") THEN <<Ord("\"")>> \o TokensFrom(s, i + 3)
    ELSE <<s[i]>> \o TokensFrom(s, i + 1)

TokenAt(t, i) == IF i <= Len(t) THEN t[i] ELSE 0

\* The JSON grammar by recursive descent.  ValueEnd(t, i): the position after
\* the value that starts at token i, 0 when none does.  ElementsEnd and
\* MembersEnd: the same for the rest of an array from an element on, and of
\* an object from a key on, up to and including the closing bracket.
RECURSIVE ValueEnd(_, _), ElementsEnd(_, _), MembersEnd(_, _)
ValueEnd(t, i) ==
    IF TokenAt(t, i) \in {Ord("\""), Ord("n")} THEN i + 1
    ELSE IF TokenAt(t, i) = Ord("[")
    THEN IF TokenAt(t, i + 1) = Ord("]") THEN i + 2 ELSE ElementsEnd(t, i + 1)
    ELSE IF TokenAt(t, i) = Ord("{")
    THEN IF TokenAt(t, i + 1) = Ord("}") THEN i + 2 ELSE MembersEnd(t, i + 1)
    ELSE 0

ElementsEnd(t, i) ==
    LET after(e) ==
            IF e = 0 THEN 0
            ELSE IF TokenAt(t, e) = Ord("]") THEN e + 1
            ELSE IF TokenAt(t, e) = Ord(",") THEN ElementsEnd(t, e + 1)
            ELSE 0
    IN after(ValueEnd(t, i))

MembersEnd(t, i) ==
    LET after(e) ==
            IF e = 0 THEN 0
            ELSE IF TokenAt(t, e) = Ord("}") THEN e + 1
            ELSE IF TokenAt(t, e) = Ord(",") THEN MembersEnd(t, e + 1)
            ELSE 0
    IN IF TokenAt(t, i) = Ord("\"") /\ TokenAt(t, i + 1) = Ord(":")
       THEN after(ValueEnd(t, i + 2))
       ELSE 0

\* The tokens derive exactly one top-level value.
DerivesValue(t) == ValueEnd(t, 1) = Len(t) + 1

\* C13: a parse succeeds exactly when the tokens of the text derive one
\* top-level value (an object, an array, a string, a number, true, false or
\* null), and fails with a syntax error otherwise: after a trailing comma, a
\* missing colon, a non-string key, an unterminated container, an empty or
\* blank text, or a token after the complete top-level value.
C13_Grammar ==
    pc = "parsed" =>
        LET accepted(derives) ==
                IF derives THEN parsed.dump # Null /\ ~parsed.failed
                ELSE parsed.dump = Null /\ err.mess = "JSON syntax error"
        IN accepted(DerivesValue(TokensFrom(json.bytes, 1)))

C13_Witness ==
    /\ pc = "parsed" /\ json.bytes = B(" null ")
    /\ DerivesValue(TokensFrom(json.bytes, 1))
    /\ parsed.dump = Null /\ ~parsed.failed /\ err.fault

----------------------------------------------------------------------------
(* The caller of the string codec: it builds a String of up to MaxChars    *)
(* code points, encodes it as a top-level value (tolerant set) and parses  *)
(* the text back.                                                          *)

MaxChars == 2

\* The C0 controls, blank, ! and the quote; the slash, the backslash, a, u
\* and DEL; the first and last code points of each UTF-8 length, the code
\* points around the surrogates, and U+00E9.
SampleCodePoints ==
    (0 .. 34) \cup {47, 92, 97, 117, 127}
    \cup {128, 233, 2047, 2048, 55295, 57344, 65533, 65536, 1114111}

Str_Cat_Char(cp) ==
    /\ pc = "build"
    /\ written < MaxChars
    /\ dump' = Str_new(dump.s \o StrHelp_encode_utf8_char(cp))
    /\ twin' = dump'
    /\ written' = written + 1
    /\ UNCHANGED <<pc, tolerant, err, json, json_twin, parsed, json2, scan,
                   ctype_high, calls, retval, threads>>

InitCodec ==
    /\ pc = "build"
    /\ tolerant = TRUE
    /\ err = NoError
    /\ dump = Str_new(<<>>) /\ twin = dump
    /\ json = String(<<>>)
    /\ json_twin = NullString
    /\ parsed = [dump |-> Null, failed |-> FALSE, err |-> NoError]
    /\ json2 = NullString
    /\ written = 0
    /\ scan = Idle
    /\ calls = <<>>
    /\ retval = NoReturn
    /\ threads = <<>>
    /\ ctype_high = FALSE

NextCodec == (\E cp \in SampleCodePoints : Str_Cat_Char(cp)) \/ Encode \/ Decode

SpecCodec == InitCodec /\ [][NextCodec]_vars

\* The encoding table, byte by byte: the bytes of a code point above 127 are
\* all above 127 and stand for themselves.
TableEscape(b) ==
    IF b > 127 THEN <<b>>
    ELSE IF b \in (0 .. 7) \cup {11} \cup (14 .. 31)
    THEN B("\\u00") \o <<B("01")[(b \div 16) + 1], B("0123456789abcdef")[(b % 16) + 1]>>
    ELSE IF b = 8 THEN B("\\b")
    ELSE IF b = 9 THEN B("\\t")
    ELSE IF b = 10 THEN B("\\n")
    ELSE IF b = 12 THEN B("\\f")
    ELSE IF b = 13 THEN B("\\r")
    ELSE IF b = 92 THEN B("\\\\")
    ELSE IF b = 34 THEN B("\\\"")
    ELSE <<b>>

RECURSIVE TableEncoded(_, _)
TableEncoded(s, i) ==
    IF i > Len(s) THEN <<>> ELSE TableEscape(s[i]) \o TableEncoded(s, i + 1)

\* C14: the encoder emits, between one opening and one closing double
\* quote, for every code point c of the text: c itself when c > 127;
\* \u00XX with lowercase hex when c is in 0x00..0x07, 0x0B or 0x0E..0x1F;
\* \b \t \n \f \r for 0x08 0x09 0x0A 0x0C 0x0D; \\ for a backslash and \" for
\* a double quote; the byte itself for every other code point up to 127 (a
\* forward slash is never escaped).
C14_EncodingTable ==
    pc = "encoded" =>
        /\ ~json.null
        /\ json.bytes = B("\"") \o TableEncoded(dump.s, 1) \o B("\"") \o <<10>>

C14_Witness ==
    /\ pc = "encoded" /\ dump.s = <<11, 47>>
    /\ json.bytes = B("\"\\u000b/\"") \o <<10>>

----------------------------------------------------------------------------
(* The conversion helpers Json_obj_to_i64, Json_obj_to_f64 and             *)
(* Json_obj_to_bool.  A helper either returns val or leaves by THROW with  *)
(* the message mess (thrown), returning nothing.                           *)

Returned(by, val) == [thrown |-> FALSE, mess |-> "", by |-> by, val |-> val]
THROW(by, mess) == [thrown |-> TRUE, mess |-> mess, by |-> by, val |-> Null]

\* Obj_get_class_name(obj)
Obj_get_class_name(obj) ==
    CASE obj.t = "bool" -> "Clownfish::Boolean"
      [] obj.t = "int" -> "Clownfish::Integer"
      [] obj.t = "float" -> "Clownfish::Float"
      [] obj.t = "str" -> "Clownfish::String"
      [] obj.t = "arr" -> "Clownfish::Vector"
      [] obj.t = "obj" -> "Clownfish::Hash"

\* Float_To_I64, the cast (int64_t)value: the outcomes a build can produce.
\* Below 10^9 in magnitude the value truncated toward zero; up to 10^18 the
\* truncated value, kept as the double it comes from; beyond the range of
\* int64_t, for an infinity and for a NaN the cast is undefined, and the
\* builds produce INT64_MIN, 0 or INT64_MAX.
Float_To_I64(f) ==
    LET digits == Len(DigitsOf(f.m))
        trunc == IF f.e >= 0 THEN f.m * Zeros10(f.e) ELSE f.m \div Zeros10(0 - f.e)
    IN IF f.k = "num" /\ (f.m = 0 \/ digits + f.e <= 0) THEN <<0>>
       ELSE IF f.k = "num" /\ digits + f.e <= 9
       THEN <<IF f.neg THEN 0 - trunc ELSE trunc>>
       ELSE IF f.k = "num" /\ digits + f.e <= 18 THEN <<[i64 |-> "trunc", of |-> f]>>
       ELSE <<[i64 |-> "INT64_MIN"], 0, [i64 |-> "INT64_MAX"]>>

\* Str_To_I64, base 10: an optional '-', then the digits up to the first
\* byte that is not one.
Str_To_I64(s) ==
    LET signed(neg, p) ==
            IF neg THEN 0 - DecValue(s, p, RunEnd(s, p, IsDigit))
            ELSE DecValue(s, p, RunEnd(s, p, IsDigit))
    IN signed(AtZ(s, 1) = Ord("-"), IF AtZ(s, 1) = Ord("-") THEN 2 ELSE 1)

\* Lines 704-726: the outcomes of Json_obj_to_i64(obj).
Json_obj_to_i64(obj) ==
    IF obj = Null THEN <<THROW("i64", "Can't extract integer from NULL")>>
    ELSE IF obj.t = "int" THEN <<Returned("i64", obj.i)>>
    ELSE IF obj.t = "float"
    THEN [k \in DOMAIN Float_To_I64(obj.f) |-> Returned("i64", Float_To_I64(obj.f)[k])]
    ELSE IF obj.t = "str" THEN <<Returned("i64", Str_To_I64(obj.s))>>
    ELSE <<THROW("i64", "Can't extract integer from object of type "
                        \o Obj_get_class_name(obj))>>

\* Lines 728-750.  Int_To_F64 is exact below 2^53; Str_To_F64 is strtod on a
\* NUL-terminated copy of the text.
Json_obj_to_f64(obj) ==
    IF obj = Null THEN THROW("f64", "Can't extract float from NULL")
    ELSE IF obj.t = "float" THEN Returned("f64", obj.f)
    ELSE IF obj.t = "int"
    THEN Returned("f64", DblNorm(obj.i < 0, IF obj.i < 0 THEN 0 - obj.i ELSE obj.i, 0))
    ELSE IF obj.t = "str" THEN Returned("f64", Strtod(obj.s, 1).val)
    ELSE THROW("f64", "Can't extract float from object of type "
                      \o Obj_get_class_name(obj))

\* Json_obj_to_bool without the BOOLEAN branch: a Boolean falls through to
\* the THROW, as it does in the other two helpers.
Json_obj_to_bool_untyped(obj) ==
    IF obj = Null THEN THROW("bool", "Can't extract bool from NULL")
    ELSE IF obj.t = "int" THEN Returned("bool", obj.i # 0)
    ELSE IF obj.t = "float" THEN Returned("bool", ~(obj.f.k = "num" /\ obj.f.m = 0))
    ELSE IF obj.t = "str" THEN Returned("bool", Str_To_I64(obj.s) # 0)
    ELSE THROW("bool", "Can't extract bool from object of type "
                       \o Obj_get_class_name(obj))

\* Lines 752-777.  Float_To_Bool: value != 0.0, true of a NaN.
Json_obj_to_bool(obj) ==
    IF obj = Null THEN THROW("bool", "Can't extract bool from NULL")
    ELSE IF obj.t = "bool" THEN Returned("bool", obj.b)
    ELSE IF obj.t = "int" THEN Returned("bool", obj.i # 0)
    ELSE IF obj.t = "float" THEN Returned("bool", ~(obj.f.k = "num" /\ obj.f.m = 0))
    ELSE IF obj.t = "str" THEN Returned("bool", Str_To_I64(obj.s) # 0)
    ELSE THROW("bool", "Can't extract bool from object of type "
                       \o Obj_get_class_name(obj))

----------------------------------------------------------------------------
(* The caller of the conversion helpers: it holds one value and calls one  *)
(* helper on it.                                                           *)

MaxText == 2

\* The texts of up to n bytes out of 0, 7, '-', '.' and x.
RECURSIVE Texts(_)
Texts(n) ==
    IF n = 0 THEN {<<>>}
    ELSE Texts(n - 1)
         \cup {Append(t, b) : t \in Texts(n - 1),
                              b \in {Ord("0"), Ord("7"), Ord("-"), Ord("."), Ord("x")}}

ConvertSources ==
    {Null, CFISH_TRUE, CFISH_FALSE, Int_new(0), Int_new(5), Int_new(0 - 3),
     Float_new(Dbl(FALSE, 0, 0)), Float_new(Dbl(TRUE, 0, 0)),
     Float_new(Dbl(FALSE, 5, -1)), Float_new(Dbl(TRUE, 25, -1)),
     Float_new(Dbl(FALSE, 1, 12)), Float_new(Dbl(FALSE, 1, 300)),
     Float_new(DblInf(TRUE)), Float_new(DblNan(FALSE)),
     Vec_new(<<>>), Vec_new(<<Int_new(5)>>), Hash_new(<<>>),
     Hash_new(<<[key |-> Str_new(B("a")), val |-> Int_new(5)]>>)}
    \cup {Str_new(t) : t \in Texts(MaxText)}

InitConvert ==
    /\ Fresh
    /\ json = NullString
    /\ ctype_high = FALSE
    /\ dump \in ConvertSources
    /\ twin = dump

ToI64 ==
    /\ pc = "build"
    /\ \E k \in DOMAIN Json_obj_to_i64(dump) : retval' = Json_obj_to_i64(dump)[k]
    /\ pc' = "converted"
    /\ UNCHANGED <<tolerant, err, dump, twin, json, json_twin, parsed, json2, written,
                   scan, ctype_high, calls, threads>>

ToF64 ==
    /\ pc = "build"
    /\ retval' = Json_obj_to_f64(dump)
    /\ pc' = "converted"
    /\ UNCHANGED <<tolerant, err, dump, twin, json, json_twin, parsed, json2, written,
                   scan, ctype_high, calls, threads>>

ToBool ==
    /\ pc = "build"
    /\ retval' = Json_obj_to_bool(dump)
    /\ pc' = "converted"
    /\ UNCHANGED <<tolerant, err, dump, twin, json, json_twin, parsed, json2, written,
                   scan, ctype_high, calls, threads>>

NextConvert == ToI64 \/ ToF64 \/ ToBool

SpecConvert == InitConvert /\ [][NextConvert]_vars

\* The source types each helper converts.
Convertible(by) ==
    IF by = "bool" THEN {"bool", "int", "float", "str"} ELSE {"int", "float", "str"}

\* The integer a text starts with: 0 unless it starts with digits or with a
\* '-' and digits, and then unless those digits are all 0.
StartsWithNonZero(s) ==
    \E n \in 1..Len(s) :
        /\ s[n] = Ord("7")
        /\ \A j \in 1..(n - 1) : s[j] = Ord("0") \/ s[j] = Ord("7") \/ (j = 1 /\ s[j] = Ord("-"))

\* C15: the to-integer and to-float helpers return a value exactly for an
\* Integer, a Float and a String, the to-boolean helper exactly for a
\* Boolean, an Integer, a Float and a String (a String being true iff its
\* integer parse is not zero); for NULL and for every other type (a Boolean
\* given to to-integer or to-float, an Array, an Object) the helper raises a
\* type-mismatch error and returns no value.
C15_ConversionHelpers ==
    pc = "converted" =>
        /\ ~retval.thrown <=> (dump # Null /\ dump.t \in Convertible(retval.by))
        /\ retval.thrown => retval.val = Null /\ retval.mess # ""
        /\ (retval.by = "bool" /\ dump.t = "str")
               => retval.val = StartsWithNonZero(dump.s)

C15_Witness ==
    /\ pc = "converted" /\ dump = CFISH_TRUE /\ retval.by = "f64" /\ retval.thrown
    /\ retval.mess = "Can't extract float from object of type Clownfish::Boolean"

----------------------------------------------------------------------------
(* Json_slurp_json and Json_spew_json, call by call.  The Folder and its   *)
(* streams are collaborators: Folder_Open_In and Folder_Open_Out return a  *)
(* stream, or NULL with the error slot set; the calls on a stream return.  *)
(* calls is the sequence of calls made, each with the bytes handed over    *)
(* and, for an open, whether it returned a stream.  pc: "slurp_opened",    *)
(* "slurp_read", "slurp_parsed", "spew_serialized", "spew_opened",         *)
(* "spew_written" name the call that has returned last.                    *)

Call(fn, ok, bytes) == [fn |-> fn, ok |-> ok, bytes |-> bytes]

\* Lines 112-114 with a return right after a failed parse.
AfterParse_early(d) == IF d = Null THEN "returned" ELSE "slurp_parsed"

\* Lines 112-114: after S_parse_json the stream is closed whatever dump is.
AfterParse(d) == "slurp_parsed"

\* Lines 124-127 without the return.
AfterSerialize_on(str) == "spew_serialized"

\* Lines 124-127: a failed Json_to_json returns at once.
AfterSerialize(str) == IF str.null THEN "returned" ELSE "spew_serialized"

\* What the files of the Folder hold.
FileTexts == {<<>>, B("[]"), B("[1"), B("null "), B("{\"a\":[1]}"), B("[1]]")}

Json_slurp_json ==
    \/ \* lines 106-110
       /\ pc = "build"
       /\ \E opened \in BOOLEAN :
             /\ calls' = Append(calls, Call("Folder_Open_In", opened, <<>>))
             /\ IF opened
                THEN pc' = "slurp_opened" /\ UNCHANGED <<err, retval, threads>>
                ELSE /\ err' = ERR_ADD_FRAME(Err_new("Folder_Open_In failed"))
                     /\ retval' = Returned("slurp", Null)
                     /\ pc' = "returned"
       /\ UNCHANGED <<tolerant, dump, twin, json, json_twin, parsed, json2, written,
                      scan, ctype_high, threads>>
    \/ \* lines 111-112: the whole file is the buffer
       /\ pc = "slurp_opened"
       /\ \E buf \in FileTexts :
             /\ calls' = calls \o <<Call("InStream_Length", TRUE, <<>>),
                                    Call("InStream_Buf", TRUE, buf)>>
             /\ scan' = ParseBegin(buf, err)
       /\ pc' = "slurp_read"
       /\ UNCHANGED <<tolerant, err, dump, twin, json, json_twin, parsed, json2, written,
                      ctype_high, retval, threads>>
    \/ \* line 113
       /\ pc = "slurp_read"
       /\ calls' = Append(calls, Call("S_parse_json", TRUE, scan.json))
       /\ \E a \in {S_do_parse_json(scan.json, err, ctype_high)} :
             scan' = a /\ err' = a.err /\ pc' = AfterParse(a.ret)
       /\ UNCHANGED <<tolerant, dump, twin, json, json_twin, parsed, json2, written,
                      ctype_high, retval, threads>>
    \/ \* lines 114-119
       /\ pc = "slurp_parsed"
       /\ calls' = Append(calls, Call("InStream_Close", TRUE, <<>>))
       /\ parsed' = [dump |-> scan.ret, failed |-> scan.failed,
                     err |-> IF scan.ret = Null THEN ERR_ADD_FRAME(err) ELSE err]
       /\ err' = parsed'.err
       /\ retval' = Returned("slurp", scan.ret)
       /\ pc' = "returned"
       /\ UNCHANGED <<tolerant, dump, twin, json, json_twin, json2, written, scan,
                      ctype_high, threads>>

Json_spew_json ==
    \/ \* lines 124-128
       /\ pc = "build"
       /\ calls' = Append(calls, Call("Json_to_json", TRUE, <<>>))
       /\ \E r \in {Json_to_json(dump, tolerant, err)} :
             /\ json' = r.json
             /\ err' = IF r.json.null THEN ERR_ADD_FRAME(r.err) ELSE r.err
             /\ retval' = IF r.json.null THEN Returned("spew", FALSE) ELSE retval
             /\ pc' = AfterSerialize(r.json)
       /\ UNCHANGED <<tolerant, dump, twin, json_twin, parsed, json2, written, scan,
                      ctype_high, threads>>
    \/ \* lines 129-134
       /\ pc = "spew_serialized"
       /\ \E opened \in BOOLEAN :
             /\ calls' = Append(calls, Call("Folder_Open_Out", opened, <<>>))
             /\ IF opened
                THEN pc' = "spew_opened" /\ UNCHANGED <<err, retval, threads>>
                ELSE /\ err' = ERR_ADD_FRAME(Err_new("Folder_Open_Out failed"))
                     /\ retval' = Returned("spew", FALSE)
                     /\ pc' = "returned"
       /\ UNCHANGED <<tolerant, dump, twin, json, json_twin, parsed, json2, written,
                      scan, ctype_high, threads>>
    \/ \* lines 135-136
       /\ pc = "spew_opened"
       /\ calls' = Append(calls, Call("OutStream_Write_Bytes", TRUE, json.bytes))
       /\ pc' = "spew_written"
       /\ UNCHANGED <<tolerant, err, dump, twin, json, json_twin, parsed, json2, written,
                      scan, ctype_high, retval, threads>>
    \/ \* lines 137-140
       /\ pc = "spew_written"
       /\ calls' = Append(calls, Call("OutStream_Close", TRUE, <<>>))
       /\ retval' = Returned("spew", TRUE)
       /\ pc' = "returned"
       /\ UNCHANGED <<tolerant, err, dump, twin, json, json_twin, parsed, json2, written,
                      scan, ctype_high, threads>>

InitFile ==
    /\ InitSlot

NextFile == Json_slurp_json \/ Json_spew_json

SpecFile == InitFile /\ [][NextFile]_vars

\* The names of the calls made, in order.
Called == [i \in DOMAIN calls |-> calls[i].fn]

IsPrefix(s, t) == Len(s) <= Len(t) /\ s = SubSeq(t, 1, Len(s))

ReadOrder ==
    <<"Folder_Open_In", "InStream_Length", "InStream_Buf", "S_parse_json",
      "InStream_Close">>

Reading == calls # <<>> /\ calls[1].fn = "Folder_Open_In"

\* C16: read calls open-for-read, read-all-bytes, parse and close in that
\* order; when the open fails neither parse nor close is called and read
\* returns the failure indicator; when the open succeeds the stream is
\* closed exactly once before read returns, whether the parse succeeds or
\* fails.
C16_ReadLifecycle ==
    Reading =>
        /\ IsPrefix(Called, ReadOrder)
        /\ ~calls[1].ok => Len(calls) = 1 /\ pc = "returned" /\ retval.val = Null
        /\ (calls[1].ok /\ pc = "returned") => Called = ReadOrder

C16_Witness ==
    /\ Reading /\ pc = "returned" /\ Called = ReadOrder
    /\ calls[3].bytes = B("[1") /\ retval.val = Null

WriteOrder ==
    <<"Json_to_json", "Folder_Open_Out", "OutStream_Write_Bytes", "OutStream_Close">>

Writing == calls # <<>> /\ calls[1].fn = "Json_to_json"

\* C17: write serializes the whole value before it touches the storage;
\* when serialize fails, open-for-write is never called and write returns
\* failure; when the open fails, no bytes are written and write returns
\* failure; otherwise write-bytes is called once, with the complete text
\* Json_to_json returned, then close, and write returns ok.
C17_WriteOrdering ==
    Writing =>
        /\ IsPrefix(Called, WriteOrder)
        /\ Json_to_json(dump, tolerant, NoError).json.null
              => Len(calls) = 1 /\ pc = "returned" /\ retval.val = FALSE
        /\ (Len(calls) >= 2 /\ ~calls[2].ok)
              => Len(calls) = 2 /\ pc = "returned" /\ retval.val = FALSE
        /\ Len(calls) >= 3
              => calls[3].bytes = Json_to_json(dump, tolerant, NoError).json.bytes
        /\ (pc = "returned" /\ Len(calls) >= 2 /\ calls[2].ok)
              => Called = WriteOrder /\ retval.val = TRUE

C17_Witness ==
    /\ Writing /\ pc = "returned" /\ Called = WriteOrder /\ retval.val = TRUE
    /\ dump = Vec_new(<<Int_new(5), Str_new(B("a"))>>)
    /\ calls[3].bytes = B("[") \o <<10>> \o B("  5,") \o <<10>> \o B("  \"a\"")
                        \o <<10>> \o B("]") \o <<10>>

----------------------------------------------------------------------------
(* The caller of the parser on string literals made of escapes: the text   *)
(* opens with a quote and goes on with up to MaxPieces of EscapePieces.    *)

EscapePieces ==
    {B("\""), B("a"), B("\\"), B("\\u"), B("\\u000"),
     B("\\\""), B("\\\\"), B("\\/"), B("\\b"), B("\\f"), B("\\n"), B("\\r"), B("\\t"),
     B("\\q"), B("\\0")}

InitEscape ==
    /\ InitParse
    /\ json = String(B("\""))
    /\ ctype_high = FALSE

NextEscape == (\E piece \in EscapePieces : Write(piece)) \/ Parsing

SpecEscape == InitEscape /\ [][NextEscape]_vars

\* The closing quote of the literal whose first byte after the opening
\* quote is at i: the first quote from i on that lies in no escape, an
\* escape being a backslash with the byte after it, or with the five bytes
\* after it when the first of them is a u.  0: there is none before limit.
RECURSIVE Terminator(_, _, _)
Terminator(s, i, limit) ==
    IF i >= limit THEN 0
    ELSE IF s[i] = Ord("\"") THEN i
    ELSE IF s[i] # Ord("\\") THEN Terminator(s, i + 1, limit)
    ELSE IF i + 1 < limit /\ s[i + 1] = Ord("u") THEN Terminator(s, i + 6, limit)
    ELSE Terminator(s, i + 2, limit)

\* The tokenizer has just lexed, or failed to lex, the literal that opens at
\* scan.save.
StringLexed ==
    /\ pc = "parsing"
    /\ scan.pc \in {"loop", "flush", "done"}
    /\ scan.save <= Len(scan.json)
    /\ scan.json[scan.save] = Ord("\"")
    /\ (scan.text > scan.save \/ (scan.token_type = "NONE" /\ scan.pc = "done"))

\* C18: the scan for the closing quote skips the six bytes of a \u escape
\* and the two bytes of any other escape; the literal ends at the first
\* quote outside the bytes skipped; without one before the limit (also when
\* an escape runs past the limit) the parse fails with "Unterminated
\* string"; with one the cursor is left on the byte after it.
C18_TerminatorScan ==
    StringLexed =>
        LET ends(t) ==
                IF t = 0
                THEN /\ scan.pc = "done" /\ scan.failed
                     /\ scan.err.mess = "Unterminated string"
                     /\ scan.text = scan.save
                ELSE /\ scan.text = t + 1
                     /\ scan.err.mess # "Unterminated string"
        IN ends(Terminator(scan.json, scan.save + 1, Len(scan.json) + 1))

C18_Witness ==
    /\ StringLexed /\ scan.json = B("\"\\u000\"\"") /\ scan.save = 1 /\ scan.text = 9

\* The bytes the simple escapes of s[i..end-1] stand for, up to the first
\* escape that is not one of the eight (illegal) or is a \u escape (unicode).
RECURSIVE SimpleDecoded(_, _, _)
SimpleDecoded(s, i, end) ==
    LET more(b, r) == [r EXCEPT !.bytes = <<b>> \o @]
        image(c) ==
            CASE c = Ord("\"") -> 34 [] c = Ord("\\") -> 92 [] c = Ord("/") -> 47
              [] c = Ord("b") -> 8 [] c = Ord("f") -> 12 [] c = Ord("n") -> 10
              [] c = Ord("r") -> 13 [] c = Ord("t") -> 9
    IN IF i >= end THEN [bytes |-> <<>>, illegal |-> FALSE, unicode |-> FALSE]
       ELSE IF s[i] # Ord("\\") THEN more(s[i], SimpleDecoded(s, i + 1, end))
       ELSE IF s[i + 1] = Ord("u")
       THEN [bytes |-> <<>>, illegal |-> FALSE, unicode |-> TRUE]
       ELSE IF s[i + 1] \in {Ord("\""), Ord("\\"), Ord("/"), Ord("b"), Ord("f"),
                             Ord("n"), Ord("r"), Ord("t")}
       THEN more(image(s[i + 1]), SimpleDecoded(s, i + 2, end))
       ELSE [bytes |-> <<>>, illegal |-> TRUE, unicode |-> FALSE]

C20_CodecRoundTrip ==
    (pc = "decoded" /\ WellFormedUtf8(dump.s)) =>
        /\ ~parsed.failed
        /\ parsed.dump = Str_new(dump.s)

C20_Witness ==
    /\ pc = "decoded" /\ dump.s = <<0, 34>>
    /\ json.bytes = B("\"\\u0000\\\"\"") \o <<10>>
    /\ parsed.dump = Str_new(<<0, 34>>)

----------------------------------------------------------------------------
(* The layout of the text, written down from the layout rules and compared *)
(* with what Json_to_json returns for the trees of the first caller.       *)

Spaces(n) == [i \in 1..n |-> 32]

\* The pairs of an object in ascending byte order of their keys: the pair
\* at position k is the one with k - 1 smaller keys.
PairsInOrder(v) ==
    [k \in 1..Len(v.h) |->
        v.h[CHOOSE i \in 1..Len(v.h) :
                Cardinality({j \in 1..Len(v.h) :
                                BytesLess(v.h[j].key.s, v.h[i].key.s)}) = k - 1]]

\* The reference layout of v, a container at depth d or a scalar.
RECURSIVE Layout(_, _)
Layout(v, d) ==
    LET open == IF v.t = "arr" THEN B("[") ELSE B("{")
        close == IF v.t = "arr" THEN B("]") ELSE B("}")
        size == IF v.t = "arr" THEN Len(v.a) ELSE Len(v.h)
        element(i) ==
            IF v.t = "arr" THEN Layout(v.a[i], d + 1)
            ELSE B("\"") \o TableEncoded(PairsInOrder(v)[i].key.s, 1) \o B("\": ")
                 \o Layout(PairsInOrder(v)[i].val, d + 1)
        row(i) == <<10>> \o Spaces(2 * (d + 1)) \o element(i)
                  \o (IF i < size THEN B(",") ELSE <<>>)
        rows[i \in 0..size] == IF i = 0 THEN <<>> ELSE rows[i - 1] \o row(i)
    IN IF ~IsContainer(v) THEN ScalarText(v)
       ELSE IF size = 0 THEN open \o close
       ELSE IF v.t = "arr" /\ size = 1 /\ ~IsContainer(v.a[1])
       THEN B("[") \o ScalarText(v.a[1]) \o B("]")
       ELSE open \o rows[size] \o <<10>> \o Spaces(2 * d) \o close

\* C21: for every value tree on which serialize succeeds, the text is the
\* reference layout followed by exactly one newline: [] or {} for an empty
\* container; '[' element ']' on one line for an array of one element that
\* is not a container; for every other container the opening bracket, per
\* element a newline, 2*(d+1) spaces, the element (for an object the escaped
\* key, a colon, one space and the value), a comma after every element but
\* the last, then a newline, 2*d spaces and the closing bracket, d being the
\* depth of the container, the root at 0.
C21_CanonicalLayout ==
    pc = "encoded" /\ ~json.null => json.bytes = Layout(dump, 0) \o <<10>>

\* An array at depth 1 with two elements, inside a root array that has a
\* second element.
C21_Witness ==
    /\ pc = "encoded"
    /\ dump = Vec_new(<<Vec_new(<<Int_new(5), Null>>), CFISH_TRUE>>)
    /\ json.bytes = <<91, 10>> \o B("  [") \o <<10>> \o B("    5,") \o <<10>>
                    \o B("    null") \o <<10>> \o B("  ],") \o <<10>>
                    \o B("  true") \o <<10>> \o B("]") \o <<10>>

----------------------------------------------------------------------------
(* The variant of the numbers of a parsed tree, for the caller that writes *)
(* texts around numbers.                                                   *)

\* The scalars of the tree v, the keys of its objects included.
RECURSIVE ScalarsOf(_)
ScalarsOf(v) ==
    IF v.t = "arr" THEN UNION {ScalarsOf(v.a[i]) : i \in 1..Len(v.a)}
    ELSE IF v.t = "obj"
    THEN UNION {ScalarsOf(v.h[i].val) \cup {v.h[i].key} : i \in 1..Len(v.h)}
    ELSE {v}

\* C22: every number of a tree returned by parse is of the Float variant,
\* never Integer, also when the literal has neither fraction nor exponent:
\* the number token carries a Float, no scalar of a returned tree is an
\* Integer, and parse of "[1]" yields an Array holding the Float 1.0.
C22_NumbersAreFloat ==
    /\ pc = "parsing" /\ scan.token_type = "NUMBER" => scan.value.t = "float"
    /\ pc = "parsed" /\ ~parsed.failed =>
           /\ \A x \in ScalarsOf(parsed.dump) : x.t # "int"
           /\ json.bytes = B("[1]") =>
                  parsed.dump = Vec_new(<<Float_new(Dbl(FALSE, 1, 0))>>)

C22_Witness ==
    /\ pc = "parsed"
    /\ json.bytes = B("[1]")
    /\ ~parsed.failed
    /\ parsed.dump = Vec_new(<<Float_new(Dbl(FALSE, 1, 0))>>)

----------------------------------------------------------------------------
(* The caller that sets or clears the leniency flag, fills an object, some *)
(* of its keys not Strings, or nests arrays, and serializes.                *)

InitLenient ==
    /\ Fresh
    /\ json = NullString
    /\ ctype_high = FALSE
    /\ dump \in {Vec_new(<<>>), Hash_new(<<>>)}
    /\ twin = dump

\* The innermost value of a chain of arrays.
Innermost(v) ==
    LET done(st) == st.t # "arr" \/ Len(st.a) = 0
        step(st) == st.a[1]
    IN While(done, step, v)

\* The caller nests an object into one array at a time, MaxNest + 1 arrays
\* at most, and an empty array into up to MaxChain arrays.
NextLenient ==
    \/ \E tol \in BOOLEAN : Json_set_tolerant(tol)
    \/ \E key \in Keys, val \in {Null, Int_new(5)} : Store(key, val)
    \/ \E k \in 1..MaxStride :
           /\ Innermost(dump).t = "obj" => k = 1 /\ ChainDepth(dump) <= MaxNest
           /\ Nest(k)
    \/ Encode

SpecLenient == InitLenient /\ [][NextLenient]_vars

HasIllegalKey(v) == v.t = "obj" /\ \E i \in 1..Len(v.h) : v.h[i].key.t # "str"

\* C23: for every tree whose root is an Object or an Array, serialize
\* returns the same outcome (the same text, or the same failure with the
\* same error) with the flag on as with the flag off; with the flag on, a
\* key that is not a String still fails with the illegal-key-type error and
\* nesting beyond the depth limit still fails; and when the key check of an
\* object fails, S_to_json has appended nothing of that object, not even
\* its opening brace.
C23_LeniencyRootOnly ==
    pc = "encoded" /\ IsContainer(dump) =>
        /\ [json |-> json, err |-> err] = Json_to_json(dump, ~tolerant, NoError)
        /\ ChainDepth(dump) <= MAX_DEPTH /\ HasIllegalKey(Innermost(dump)) =>
               /\ json.null
               /\ err.mess = "Illegal key type"
               /\ \A b \in {S_to_json(dump, <<>>, 0, NoError).buf} :
                      \A i \in 1..Len(b) : b[i] # Ord("{")
        /\ ChainDepth(dump) >= MAX_DEPTH + 2 =>
               json.null /\ err.mess = "Exceeded max depth of 200"

\* With the flag on: an object whose first key is a String and whose second
\* is not, inside an array.
C23_Witness ==
    /\ pc = "encoded"
    /\ tolerant
    /\ dump = Vec_new(<<Hash_new(<<[key |-> Str_new(B("a")), val |-> Int_new(5)],
                                  [key |-> Int_new(1), val |-> Null]>>)>>)
    /\ json.null
    /\ err.mess = "Illegal key type"

\* With the flag on: a chain of arrays beyond the depth limit.
LenientAndTooDeep ==
    /\ pc = "encoded"
    /\ tolerant
    /\ ChainDepth(dump) = MAX_DEPTH + 2
    /\ json.null
    /\ err.mess = "Exceeded max depth of 200"

----------------------------------------------------------------------------
(* The caller that writes texts on which the string lexer or the number    *)
(* lexer fails, alone or after an opening bracket.                         *)

LexerPieces ==
    {B("\""), B("a"), <<255>>, B("\\q"), B("\\uD800"), B("\\u00zz"), B("1"), B("-"),
     B("["), B(" ")}

InitLexers ==
    /\ InitParse
    /\ json = String(<<>>)
    /\ ctype_high = FALSE

NextLexers == (\E piece \in LexerPieces : Write(piece)) \/ Parsing

SpecLexers == InitLexers /\ [][NextLexers]_vars

\* What the lexer that the byte under the cursor selects returns, ok = TRUE
\* when the byte selects no lexer.
LexerResult(a) ==
    LET c == a.json[a.text]
    IN IF c = Ord("\"") THEN S_parse_string(a.json, a.text, Len(a.json) + 1, a.err)
       ELSE IF c = Ord("-") \/ (c >= Ord("0") /\ c <= Ord("9"))
       THEN S_parse_number(a.json, a.text, Len(a.json) + 1, a.err)
       ELSE [ok |-> TRUE, value |-> Null, next |-> a.text, err |-> a.err]

SubComponentMessages ==
    {"Unterminated string", "Bad UTF-8 in JSON", "Invalid \\u escape",
     "Surrogate pairs not supported", "Illegal escape", "JSON syntax error"}

\* C24: when the string lexer or the number lexer fails in an iteration of
\* the tokenizer loop, the iteration makes no token, the grammar is fed
\* nothing but the end-of-input token, the loop is left with the failure
\* indicator, and the error slot holds the message and the position that
\* the lexer has set, whatever the grammar says at the end-of-input flush;
\* the parse then returns NULL with that message in the slot.
C24_SubComponentErrors ==
    [][/\ (pc = "parsing" /\ scan.pc = "loop" /\ ~LexerResult(scan).ok) =>
              /\ scan'.pc = "done"
              /\ scan'.failed /\ scan'.ret = Null
              /\ scan'.token_type = "NONE" /\ scan'.value = Null
              /\ scan'.state = LucyParseJson(scan.state, "EOF", Null)
              /\ scan'.err.mess = LexerResult(scan).err.mess
              /\ scan'.err.mess \in SubComponentMessages
              /\ scan'.err.at = LexerResult(scan).err.at
       /\ (pc = "parsing" /\ scan.pc = "done" /\ scan.token_type = "NONE"
           /\ scan.failed /\ scan.save = scan.text /\ pc' = "parsed") =>
              /\ parsed'.failed /\ parsed'.dump = Null
              /\ err'.mess = scan.err.mess
              /\ err'.at = scan.err.at]_vars

\* A string lexer failure on the first token: the flush finds no value at
\* all, yet the slot holds the lexer's message.
C24_Witness ==
    /\ pc = "parsed"
    /\ json.bytes = B("\"\\q\"")
    /\ parsed.failed
    /\ scan.state.errors
    /\ err.mess = "Illegal escape"

----------------------------------------------------------------------------
(* The caller that makes several calls in a row, each a parse of a text it *)
(* writes or a serialize of the tree it holds, and never clears the error  *)
(* slot in between.                                                        *)

MaxCalls == 2       \* calls the caller makes in a row

\* The caller notes how the call ended and prepares the next one.
NextCall ==
    /\ pc \in {"parsed", "encoded"}
    /\ Len(calls) + 1 < MaxCalls
    /\ calls' = Append(calls,
                       IF pc = "parsed"
                       THEN Call("Json_from_json", parsed.dump # Null, <<>>)
                       ELSE Call("Json_to_json", ~json.null, <<>>))
    /\ pc' = "build"
    /\ json' = String(<<>>)
    /\ written' = 0
    /\ parsed' = [dump |-> Null, failed |-> FALSE, err |-> NoError]
    /\ UNCHANGED <<tolerant, err, dump, twin, json_twin, json2, scan, ctype_high,
                   retval, threads>>

NextSequence ==
    \/ \E piece \in SlotPieces : Write(piece)
    \/ Parse
    \/ Encode
    \/ NextCall

SpecSequence == InitSlot /\ [][NextSequence]_vars

\* What the call leaves in a slot that was empty: its own error.
OwnError(e) == e.mess # "" /\ ~e.fault

\* C25 as claimed: in a sequence of parse and serialize calls, a call that
\* returns the failure indicator leaves in the slot its own error and
\* nothing of what the slot held before (the slot is what the same call
\* leaves in an empty slot), and a call that succeeds leaves the slot
\* exactly as it was.
C25_SingleSlot ==
    [][/\ (pc = "build" /\ pc' = "parsed") =>
              IF parsed'.dump = Null
              THEN /\ OwnError(err')
                   /\ err' = Json_from_json(json, NoError, ctype_high).err
              ELSE err' = err
       /\ (pc = "build" /\ pc' = "encoded") =>
              IF json'.null
              THEN /\ OwnError(err')
                   /\ err' = Json_to_json(dump, tolerant, NoError).err
              ELSE err' = err]_vars

\* The serialize of an object with an Integer key has failed, and the parse
\* of "null " after it has returned NULL: the slot holds the error of the
\* serialize, with one frame more.
C25_Witness ==
    /\ pc = "parsed"
    /\ calls = <<Call("Json_to_json", FALSE, <<>>)>>
    /\ json.bytes = B("null ")
    /\ parsed.dump = Null
    /\ err.mess = "Illegal key type"
    /\ err.frames = 2

----------------------------------------------------------------------------
(* Threads that call the codec without synchronization.  The error slot is *)
(* one global of the process (Err_set_error / Err_get_error): a call       *)
(* writes it when it fails, and the thread that got NULL back reads it     *)
(* afterwards, with the steps of the other threads in between.             *)

\* What a thread may call: a parse that fails, the parse of "null ", a
\* serialize that fails, a serialize that succeeds.
ThreadOps ==
    {[fn |-> "Json_from_json", text |-> B("["), dump |-> Null],
     [fn |-> "Json_from_json", text |-> B("null "), dump |-> Null],
     [fn |-> "Json_to_json", text |-> <<>>,
      dump |-> Hash_new(<<[key |-> Int_new(1), val |-> Null]>>)],
     [fn |-> "Json_to_json", text |-> <<>>, dump |-> Vec_new(<<>>)]}

MaxThreads == 2     \* threads of the process

NewThread == [pc |-> "idle", ops |-> <<>>, seen |-> NoError]

\* One thread or several, the slot empty.
InitRace ==
    /\ pc = "build"
    /\ tolerant = FALSE
    /\ err = NoError
    /\ dump = Null /\ twin = Null
    /\ json = NullString
    /\ json_twin = NullString
    /\ parsed = [dump |-> Null, failed |-> FALSE, err |-> NoError]
    /\ json2 = NullString
    /\ written = 0
    /\ scan = Idle
    /\ calls = <<>>
    /\ retval = NoReturn
    /\ ctype_high = FALSE
    /\ \E n \in 1..MaxThreads : threads = [t \in 1..n |-> NewThread]

\* The call op with the slot holding e: whether it returned NULL, and the
\* slot afterwards.
RunOp(op, e) ==
    LET parse(r) == [null |-> r.dump = Null, err |-> r.err]
        serialize(r) == [null |-> r.json.null, err |-> r.err]
    IN IF op.fn = "Json_from_json"
       THEN parse(Json_from_json(String(op.text), e, ctype_high))
       ELSE serialize(Json_to_json(op.dump, tolerant, e))

\* Thread t makes the call op.  A NULL dereference ends the process.
ThreadCall(t, op) ==
    /\ t \in DOMAIN threads
    /\ ~err.fault
    /\ threads[t].pc \in {"idle", "read"}
    /\ Len(threads[t].ops) < MaxCalls
    /\ \E r \in {RunOp(op, err)} :
           /\ err' = r.err
           /\ threads' = [threads EXCEPT
                  ![t] = [pc |-> IF r.null THEN "failed" ELSE "idle",
                          ops |-> Append(@.ops, op), seen |-> @.seen]]
    /\ UNCHANGED <<pc, tolerant, dump, twin, json, json_twin, parsed, json2, written,
                   scan, ctype_high, calls, retval>>

\* Thread t, whose call has returned NULL, reads the slot: Err_get_error().
ThreadRead(t) ==
    /\ t \in DOMAIN threads
    /\ ~err.fault
    /\ threads[t].pc = "failed"
    /\ threads' = [threads EXCEPT ![t] = [@ EXCEPT !.pc = "read", !.seen = err]]
    /\ UNCHANGED <<pc, tolerant, err, dump, twin, json, json_twin, parsed, json2,
                   written, scan, ctype_high, calls, retval>>

NextRace ==
    \/ \E t \in 1..MaxThreads, op \in ThreadOps : ThreadCall(t, op)
    \/ \E t \in 1..MaxThreads : ThreadRead(t)

SpecRace == InitRace /\ [][NextRace]_vars

\* The message of the error a call is to leave by the rules ("" when the
\* call is to succeed): "null " is the JSON text of the value null.
FailureOf(op) ==
    IF op.fn = "Json_from_json"
    THEN (IF op.text = B("[") THEN "JSON syntax error" ELSE "")
    ELSE (IF op.dump = Vec_new(<<>>) THEN "" ELSE "Illegal key type")

\* The message of the last failing call among ops, "" when none has failed.
RECURSIVE LastFailure(_)
LastFailure(ops) ==
    IF ops = <<>> THEN ""
    ELSE IF FailureOf(ops[Len(ops)]) # "" THEN FailureOf(ops[Len(ops)])
    ELSE LastFailure(SubSeq(ops, 1, Len(ops) - 1))

----------------------------------------------------------------------------
(* The excerpt of the text that S_set_error puts into the message, for the *)
(* caller that writes long texts, some of them ill-formed UTF-8, and       *)
(* parses them.                                                            *)

\* Seventeen bytes each: continuation bytes, letters, two-byte characters
\* after a letter; and a bracket, a quote, a blank.
ExcerptPieces ==
    {[i \in 1..17 |-> 128], [i \in 1..17 |-> Ord("a")],
     [i \in 1..17 |-> IF i = 1 THEN Ord("a") ELSE IF i % 2 = 0 THEN 195 ELSE 169],
     B("["), B("\""), B(" ")}

InitExcerpt ==
    /\ InitParse
    /\ json = String(<<>>)
    /\ ctype_high = FALSE

NextExcerpt == (\E piece \in ExcerptPieces : Write(piece)) \/ Parse

SpecExcerpt == InitExcerpt /\ [][NextExcerpt]_vars

\* The parse has failed in a SET_ERROR with a position in the text.
ExcerptMade == pc = "parsed" /\ parsed.failed /\ err.at # 0

\* C27 as claimed: whatever the text and the failure position, the length
\* of the excerpt is between 0 and 32, the excerpt lies inside [failure
\* position, limit), and when more than 32 bytes remain it ends where a
\* code point ends, that is, the byte after it is no continuation byte.
C27_ExcerptBounds ==
    ExcerptMade =>
        \A len \in SnippetLen(json.bytes, err.at, err.lim) :
            /\ len >= 0 /\ len <= 32
            /\ err.at + len <= err.lim
            /\ err.lim - err.at > 32 =>
                   (json.bytes[err.at + len] < 128 \/ json.bytes[err.at + len] >= 192)

\* The parse of 34 continuation bytes has failed at the first byte, and the
\* length computed for the excerpt is negative.
C27_Witness ==
    /\ ExcerptMade
    /\ json.bytes = [i \in 1..34 |-> 128]
    /\ err.at = 1
    /\ \E len \in SnippetLen(json.bytes, err.at, err.lim) : len < 0

----------------------------------------------------------------------------
(* The caller that writes bytes that start no token among bytes that do,   *)
(* and parses.  Once Json_from_json is called it keeps running: the steps  *)
(* of Parsing are taken as long as one is possible.                        *)

TokenlessPieces ==
    {B("+"), B("n"), B("t"), B("nul"), B("null"), B("["), B("]"), B(" ")}

InitTokenless ==
    /\ InitParse
    /\ json = String(<<>>)
    /\ ctype_high = FALSE

NextTokenless == (\E piece \in TokenlessPieces : Write(piece)) \/ Parsing

SpecTokenless == InitTokenless /\ [][NextTokenless]_vars /\ WF_vars(Parsing)

\* The byte under the cursor starts no token: it is no whitespace, bracket,
\* brace, colon, comma, quote, digit or minus sign, and no keyword begins
\* there.
StartsNoToken(a) ==
    /\ a.json[a.text] \notin
           {32, 10, 13, 9} \cup {Ord("["), Ord("]"), Ord("{"), Ord("}"), Ord(":"),
                                 Ord(","), Ord("\""), Ord("-")} \cup (48 .. 57)
    /\ \A w \in Keywords :
           ~SI_check_keyword(a.json, a.text, Len(a.json) + 1, w.text, ctype_high)

\* C28: every parse that has been entered returns; every iteration of the
\* tokenizer loop advances the cursor by at least one byte or returns; and
\* an iteration on a byte that starts no token leaves the cursor where it
\* is and returns NULL with a syntax error at that position.
C28_Termination ==
    /\ (pc = "parsing") ~> (pc = "parsed")
    /\ [][(pc = "parsing" /\ scan.pc = "loop") =>
              /\ scan'.text > scan.text \/ scan'.pc = "done"
              /\ StartsNoToken(scan) =>
                     /\ scan'.text = scan.text
                     /\ scan'.pc = "done" /\ scan'.failed /\ scan'.ret = Null
                     /\ scan'.err.mess = "JSON syntax error"
                     /\ scan'.err.at = scan.text]_vars

\* The parse of "[+" has returned with a syntax error at the plus sign.
C28_Witness ==
    /\ pc = "parsed"
    /\ json.bytes = B("[+")
    /\ parsed.failed
    /\ scan.text = 2 /\ scan.save = 2 /\ scan.token_type = "NONE"
    /\ err.mess = "JSON syntax error" /\ err.at = 2

----------------------------------------------------------------------------
(* The bytes the tokenizer reads.  json holds the bytes of [start, limit): *)
(* index Len(json) + 1 is limit, and whatever the memory holds from there  *)
(* on is not the text's.                                                   *)

BoundedPieces ==
    {B("\""), B("\\"), B("\\u"), B("\\u0041"), B("\\\\"), B("a"), B("1"), B("-"),
     B("e5"), B("]"), B(" "), B("n"), B("nul"), B("null")}

InitBounded ==
    /\ InitParse
    /\ json = String(<<>>)
    /\ ctype_high = FALSE

NextBounded == (\E piece \in BoundedPieces : Write(piece)) \/ Parsing

SpecBounded == InitBounded /\ [][NextBounded]_vars

\* The indices of the bytes that one iteration of the loop reads with the
\* cursor on a.text, by the reader: the switch (line 401), SI_check_keyword
\* (lines 671-676), the loop of S_parse_string (539-551), StrHelp_utf8_valid
\* on a span without backslash (567), the loop of S_unescape_text (587-643),
\* the loop of S_parse_number (503-517) and strtod (522), which inspects no
\* byte after the first one that no number contains.  quote is the index of
\* the closing quote and follow that of the first byte of the follow set
\* (0: none).
BytesRead(a, high) ==
    LET buf == a.json
        limit == Len(a.json) + 1
        top == a.text + 1
        mem == a.json \o <<0, 0, 0, 0, 0, 0>>
        keyword(w) ==
            IF limit - a.text > Len(w) THEN a.text .. (a.text + Len(w)) ELSE {}
        scanDone(st) == st.text >= limit \/ st.end
        scanStep(st) ==
            IF buf[st.text] = Ord("\"")
            THEN [st EXCEPT !.end = TRUE, !.read = @ \cup {st.text}]
            ELSE IF buf[st.text] = Ord("\\")
            THEN IF st.text + 1 < limit
                 THEN [text |-> st.text + (IF buf[st.text + 1] = Ord("u")
                                           THEN 5 + 1 ELSE 1 + 1),
                       end |-> FALSE, read |-> st.read \cup {st.text, st.text + 1}]
                 ELSE [text |-> st.text + 1 + 1, end |-> FALSE,
                       read |-> st.read \cup {st.text}]
            ELSE [text |-> st.text + 1, end |-> FALSE,
                  read |-> st.read \cup {st.text}]
        escape(p) ==
            IF mem[p] # Ord("\\") THEN {p}
            ELSE IF mem[p + 1] = Ord("u") THEN p .. (p + 5) ELSE {p, p + 1}
        unDone(w) == w.st.text >= w.end \/ w.st.failed
        unStep(w) ==
            [w EXCEPT !.st = UnescapeStep(mem, w.end, w.st),
                      !.read = @ \cup escape(w.st.text)]
        string(sc) ==
            [switch |-> {a.text}, keyword |-> {},
             scan |-> While(scanDone, scanStep,
                            [text |-> top, end |-> FALSE, read |-> {}]).read,
             plain |-> IF sc.end # 0 /\ ~sc.saw_backslash
                       THEN top .. (sc.end - 1) ELSE {},
             unescape |-> IF sc.end # 0 /\ sc.saw_backslash
                          THEN While(unDone, unStep,
                                     [st |-> [text |-> top, target |-> <<>>,
                                              failed |-> FALSE, err |-> a.err],
                                      end |-> sc.end, read |-> {}]).read
                          ELSE {},
             terminator |-> {}, strtod |-> {}, quote |-> sc.end, follow |-> 0]
        numberByte(b) ==
            \/ IsDigit(b) \/ IsUpper(b) \/ IsLower(b)
            \/ b \in {Ord("+"), Ord("-"), Ord("."), Ord("("), Ord(")"), Ord("_")}
        follows == {e \in a.text .. (limit - 1) : buf[e] \in FollowSet}
        number(r) ==
            [switch |-> {a.text}, keyword |-> {}, scan |-> {}, plain |-> {},
             unescape |-> {}, terminator |-> a.text .. (limit - 1),
             strtod |-> IF follows # {} \/ r.ok
                        THEN a.text .. RunEnd(buf, a.text, numberByte) ELSE {},
             quote |-> 0,
             follow |-> IF follows = {} THEN 0
                        ELSE CHOOSE e \in follows : \A f \in follows : e <= f]
        other(words) ==
            [switch |-> {a.text}, keyword |-> words, scan |-> {}, plain |-> {},
             unescape |-> {}, terminator |-> {}, strtod |-> {}, quote |-> 0,
             follow |-> 0]
        case(c) ==
            IF c = Ord("\"") THEN string(StringScan(buf, top, limit))
            ELSE IF c = Ord("n") THEN other(keyword(B("null")))
            ELSE IF c = Ord("t") THEN other(keyword(B("true")))
            ELSE IF c = Ord("f") THEN other(keyword(B("false")))
            ELSE IF IsDigit(c) \/ c = Ord("-")
            THEN number(S_parse_number(buf, a.text, limit, a.err))
            ELSE other({})
    IN case(mem[a.text])

\* C29: while a buffer is parsed the cursor stays between its start and its
\* limit, and an iteration of the tokenizer loop reads no byte at or after
\* the limit: not in the switch, the keyword check, the scan for the closing
\* quote, the unescaping pass, which reads no byte at or after the closing
\* quote the scan found, or the number lexer, whose strtod is called only
\* when a byte of the follow set is there and reads none after the first.
C29_BoundedScanning ==
    LET bounded(r) ==
            /\ \A i \in r.switch \cup r.keyword \cup r.scan \cup r.plain
                            \cup r.unescape \cup r.terminator \cup r.strtod :
                   i >= 1 /\ i <= Len(scan.json)
            /\ \A i \in r.unescape : i < r.quote
            /\ \A i \in r.strtod : r.follow # 0 /\ i <= r.follow
    IN /\ pc = "parsing" => scan.text >= 1 /\ scan.text <= Len(scan.json) + 1
       /\ (pc = "parsing" /\ scan.pc = "loop") => bounded(BytesRead(scan, ctype_high))

\* The literal "\u0041" has been lexed: the pass read the escape up to the
\* byte before the closing quote, and the cursor is on the limit.
C29_Witness ==
    /\ pc = "parsing"
    /\ scan.json = B("\"\\u0041\"")
    /\ scan.pc = "flush"
    /\ scan.text = Len(scan.json) + 1
    /\ scan.token_type = "STRING"
    /\ scan.value = Str_new(B("A"))
    /\ BytesRead([scan EXCEPT !.text = scan.save], ctype_high).unescape = 2 .. 7
    /\ BytesRead([scan EXCEPT !.text = scan.save], ctype_high).quote = 8

----------------------------------------------------------------------------
(* The target buffer of S_unescape_text.                                   *)

UnescapePieces ==
    {B("\""), B("a"), B("\\n"), B("\\\\"), B("\\/"), B("\\q"), B("\\u0041"),
     B("\\u00e9"), B("\\u20AC"), B("\\uFFFF"), B("\\uD800"), B("\\u0x12"),
     B("\\u-000")}

InitUnescape ==
    /\ InitParse
    /\ json = String(B("\""))
    /\ ctype_high = FALSE

NextUnescape == (\E piece \in UnescapePieces : Write(piece)) \/ Parsing

SpecUnescape == InitUnescape /\ [][NextUnescape]_vars

\* Line 583: the bytes allocated for the span [top, end).
cap(top, end) == end - top + 1

\* Whether every write of the pass over buf[top..end-1] stays inside the
\* allocation: a step that does not fail moves the cursor by 1, 2 or 6 bytes
\* and appends 1, 1 or at most 3 bytes, all at indices below cap, and the
\* terminating zero byte of line 651 has its place too.
WritesFit(buf, top, end, e) ==
    LET done(w) == w.st.text >= end \/ w.st.failed
        moved(s, t) == t.text - s.text
        grown(s, t) == Len(t.target) - Len(s.target)
        fits(s, t) ==
            \/ t.failed
            \/ /\ Len(t.target) <= cap(top, end)
               /\ Len(t.target) <= t.text - top
               /\ IF buf[s.text] # Ord("\\")
                  THEN moved(s, t) = 1 /\ grown(s, t) = 1
                  ELSE IF buf[s.text + 1] = Ord("u")
                  THEN moved(s, t) = 6 /\ grown(s, t) \in 1..3
                  ELSE moved(s, t) = 2 /\ grown(s, t) = 1
        next(w, t) == [st |-> t, ok |-> w.ok /\ fits(w.st, t)]
        step(w) == next(w, UnescapeStep(buf, end, w.st))
        final(w) ==
            /\ w.ok
            /\ ~w.st.failed => /\ Len(w.st.target) <= end - top
                               /\ Len(w.st.target) + 1 <= cap(top, end)
    IN final(While(done, step,
                   [st |-> [text |-> top, target |-> <<>>, failed |-> FALSE,
                            err |-> e],
                    ok |-> TRUE]))

\* C30: for every string span that the scan for the closing quote accepts
\* and that holds a backslash, the unescaping pass writes no more bytes than
\* the span is long: one for a plain byte, one for a 2-byte escape, at most
\* three for a 6-byte \u escape; the allocation of span length + 1 bytes
\* holds them and the terminating zero byte.
C30_UnescapeBufferBound ==
    LET spans(sc) ==
            (sc.end # 0 /\ sc.saw_backslash) =>
                WritesFit(scan.json, scan.text + 1, sc.end, scan.err)
    IN (pc = "parsing" /\ scan.pc = "loop" /\ scan.json[scan.text] = Ord("\"")) =>
           spans(StringScan(scan.json, scan.text + 1, Len(scan.json) + 1))

\* The literal "€€" has been unescaped: 6 bytes for a span of 12.
C30_Witness ==
    /\ pc = "parsing"
    /\ scan.json = B("\"\\u20AC\\u20AC\"")
    /\ scan.pc = "flush"
    /\ scan.token_type = "STRING"
    /\ scan.value = Str_new(<<226, 130, 172, 226, 130, 172>>)
    /\ Len(scan.value.s) + 1 <= cap(scan.save + 1, scan.text - 1)

====
